---- MODULE Spec2Model ----
(***************************************************************************)
(* Route protection and session gating of open-workouts.                   *)
(*                                                                         *)
(* Two applications live in the repository:                                *)
(*   apps/web-app  - middleware.ts gates requests after supabase.getUser() *)
(*   apps/web      - a middleware that looks at cookie names, and server   *)
(*                   pages that call ISessionManager.getCurrentUser()      *)
(*                                                                         *)
(* Strings are sequences of symbols.  A symbol stands for a fixed run of   *)
(* characters: "/", ":", "?", "=", "&", "#", "%", "+", " " and "\\" are    *)
(* the single characters, a hex pair such as "2F" is the two characters    *)
(* following a "%", and a word such as "dashboard" is that word.  No       *)
(* symbol is a prefix of another one, so String.startsWith is the prefix   *)
(* relation on sequences and String equality is sequence equality.         *)
(*                                                                         *)
(* One browser is followed against one of the two deployments:             *)
(*   world  what the identity provider holds for that browser: the         *)
(*          account's state and whether its cookies carry a live session   *)
(*   page   the client component on screen: its location, its toast, the   *)
(*          navigation it asked of the router, its local flags             *)
(*   auth   the state held by the web-app AuthProvider                     *)
(*   tasks  the asynchronous work of the AuthProvider that has started and *)
(*          not settled: its initial session load and its operations       *)
(*   trail  the paths the browser has requested while it follows the       *)
(*          redirects of one navigation                                    *)
(* A handler's inputs are kept in arg and its result in ret.               *)
(***************************************************************************)
EXTENDS Integers, Sequences, FiniteSets, TLC

VARIABLES pc, op, request, reader, response, arg, ret, world, page, auth,
          tasks, trail

vars ==
    <<pc, op, request, reader, response, arg, ret, world, page, auth, tasks,
      trail>>

(***************************************************************************)
(* Bounds of the model.                                                    *)
(***************************************************************************)
\* symbols a request pathname may carry after its first segment
MaxTail == 2
\* symbols of a redirectTo value handed to getRedirectDestination
MaxTargetLen == 3

(***************************************************************************)
(* Strings.                                                                *)
(***************************************************************************)
SeqsUpTo(S, n) == UNION { [1..k -> S] : k \in 0..n }

StartsWith(s, p) == Len(s) >= Len(p) /\ SubSeq(s, 1, Len(p)) = p

\* the index of the first occurrence of one of the symbols of D in s, or 0
RECURSIVE FirstIndexFrom(_, _, _)
FirstIndexFrom(s, D, i) ==
    IF i > Len(s) THEN 0
    ELSE IF s[i] \in D THEN i
    ELSE FirstIndexFrom(s, D, i + 1)

FirstIndex(s, D) == FirstIndexFrom(s, D, 1)

\* application/x-www-form-urlencoded byte serializer, as URLSearchParams.set
\* applies it: alphanumerics and * - . _ stay, a space becomes +, every other
\* character becomes % and its two hex digits
PercentEncoded ==
    [c \in {"/", ":", "?", "=", "&", "#", "%", "+", "\\"} |->
        CASE c = "/"  -> "2F"
          [] c = ":"  -> "3A"
          [] c = "?"  -> "3F"
          [] c = "="  -> "3D"
          [] c = "&"  -> "26"
          [] c = "#"  -> "23"
          [] c = "%"  -> "25"
          [] c = "+"  -> "2B"
          [] c = "\\" -> "5C"]

HexPairs == { PercentEncoded[c] : c \in DOMAIN PercentEncoded }

HexChar(h) == CHOOSE c \in DOMAIN PercentEncoded : PercentEncoded[c] = h

EncodeSym(c) ==
    IF c = " " THEN <<"+">>
    ELSE IF c \in DOMAIN PercentEncoded THEN <<"%", PercentEncoded[c]>>
    ELSE <<c>>

RECURSIVE Encode(_)
Encode(s) == IF s = <<>> THEN <<>> ELSE EncodeSym(Head(s)) \o Encode(Tail(s))

\* application/x-www-form-urlencoded decoding, as URLSearchParams applies it
\* when it parses a query: + becomes a space, %XX becomes the character
RECURSIVE Decode(_)
Decode(s) ==
    IF s = <<>> THEN <<>>
    ELSE IF Head(s) = "+" THEN <<" ">> \o Decode(Tail(s))
    ELSE IF Head(s) = "%" /\ Len(s) >= 2 /\ s[2] \in HexPairs
         THEN <<HexChar(s[2])>> \o Decode(SubSeq(s, 3, Len(s)))
    ELSE <<Head(s)>> \o Decode(Tail(s))

(***************************************************************************)
(* URLs (the WHATWG URL class, as far as the gates use it).                *)
(***************************************************************************)
Origin == <<"http", ":", "/", "/", "app">>

Schemes == {"http", "https"}

\* url.href of a URL of this origin
Href(pathname, search) ==
    Origin \o pathname \o (IF search = <<>> THEN <<>> ELSE <<"?">> \o search)

\* new URL(path, request.url): the base gives the origin, the query of the base
\* is dropped
NewURL(path) == [pathname |-> path, search |-> <<>>]

\* url.searchParams.set(name, value) on a URL that has no query yet
SearchParamsSet(url, name, value) ==
    [url EXCEPT !.search = Encode(name) \o <<"=">> \o Encode(value)]

UrlHref(url) == Href(url.pathname, url.search)

\* new URL(s) with no base: throws (ok = FALSE) unless s is an absolute URL
ParseURL(s) ==
    LET absolute == /\ Len(s) >= 5
                    /\ s[1] \in Schemes
                    /\ s[2] = ":" /\ s[3] = "/" /\ s[4] = "/"
                    /\ s[5] \notin {"/", "?", "#", ":", "\\"}
        rest     == SubSeq(s, 6, Len(s))
        h        == FirstIndex(rest, {"#"})
        noFrag   == IF h = 0 THEN rest ELSE SubSeq(rest, 1, h - 1)
        q        == FirstIndex(noFrag, {"?"})
        path     == IF q = 0 THEN noFrag ELSE SubSeq(noFrag, 1, q - 1)
    IN  IF ~absolute
        THEN [ok |-> FALSE, pathname |-> <<>>, search |-> <<>>]
        ELSE [ok |-> TRUE,
              pathname |-> IF path = <<>> THEN <<"/">> ELSE path,
              search |-> IF q = 0 THEN <<>> ELSE SubSeq(noFrag, q + 1, Len(noFrag))]

NoValue == [present |-> FALSE, value |-> <<>>]

\* url.searchParams.get(name): the query is split at "&", each piece at its
\* first "=", both halves are decoded; the first pair named `name` wins
RECURSIVE SearchParamsGet(_, _)
SearchParamsGet(search, name) ==
    IF search = <<>> THEN NoValue
    ELSE LET a     == FirstIndex(search, {"&"})
             piece == IF a = 0 THEN search ELSE SubSeq(search, 1, a - 1)
             rest  == IF a = 0 THEN <<>> ELSE SubSeq(search, a + 1, Len(search))
             e     == FirstIndex(piece, {"="})
             key   == IF e = 0 THEN piece ELSE SubSeq(piece, 1, e - 1)
             val   == IF e = 0 THEN <<>> ELSE SubSeq(piece, e + 1, Len(piece))
         IN  IF piece # <<>> /\ Decode(key) = name
             THEN [present |-> TRUE, value |-> Decode(val)]
             ELSE SearchParamsGet(rest, name)

(***************************************************************************)
(* Responses.                                                              *)
(***************************************************************************)
NoResponse == [kind |-> "none", location |-> <<>>, cookies |-> {}, body |-> "none"]

\* NextResponse.next(): the request goes on to the page
NextResponseNext(cookies) ==
    [kind |-> "next", location |-> <<>>, cookies |-> cookies, body |-> "none"]

\* NextResponse.redirect(url): a fresh response, no cookie set on it
NextResponseRedirect(href) ==
    [kind |-> "redirect", location |-> href, cookies |-> {}, body |-> "none"]

(***************************************************************************)
(* apps/web-app/src/middleware.ts                                          *)
(***************************************************************************)
DashboardPath == <<"/", "dashboard">>
LoginPath == <<"/", "auth", "/", "login">>

IsAuthRoute(pathname) == StartsWith(pathname, <<"/", "auth", "/">>)

ProtectedRoutes ==
    { <<"/", "dashboard">>, <<"/", "profile">>, <<"/", "settings">>, <<"/", "workouts">> }

IsProtectedRoute(pathname) == \E route \in ProtectedRoutes : StartsWith(pathname, route)

PublicRoutes ==
    { <<"/">>, <<"/", "about">>, <<"/", "contact">>, <<"/", "privacy">>, <<"/", "terms">> }

\* mutant: the public list matched by prefix, like the protected one
IsPublicRoute_ByPrefix(pathname) ==
    \E route \in PublicRoutes : StartsWith(pathname, route)

IsPublicRoute(pathname) == pathname \in PublicRoutes

\* the outcomes of `await supabase.auth.getUser()` (and of creating the client):
\* a user, nobody, an error result, or an exception; setAll is what the client
\* wrote through cookies.setAll while it refreshed the session
SessionCookies == {"sb-auth-token"}

GetUserOutcomes ==
    { [user |-> u, error |-> e, throws |-> t, setAll |-> c] :
        u \in BOOLEAN, e \in BOOLEAN, t \in BOOLEAN, c \in {{}, SessionCookies} }

\* what supabase-js can answer: an error never comes with a user, an exception
\* leaves neither
PossibleOutcome(o) ==
    /\ o.error => ~o.user
    /\ o.throws => (~o.user /\ ~o.error)

\* mutant: the pass-through response is the one made before the client ran
ResponseAfterGetUser_WithoutSetAll(o) == NextResponseNext({})

\* lines 37-63: `response`, replaced by setAll when the client refreshed
ResponseAfterGetUser(o) == NextResponseNext(o.setAll)

\* mutant: the auth route lets everybody through
AuthRouteResponse_NoRedirect(o) == ResponseAfterGetUser(o)

\* mutant: the auth route redirects unless the check cleanly found nobody
AuthRouteResponse_RedirectOnError(o) ==
    IF o.user \/ o.error
    THEN NextResponseRedirect(UrlHref(NewURL(DashboardPath)))
    ELSE ResponseAfterGetUser(o)

\* lines 95-103
AuthRouteResponse(o) ==
    IF o.user
    THEN NextResponseRedirect(UrlHref(NewURL(DashboardPath)))
    ELSE ResponseAfterGetUser(o)

\* mutant: the query is glued on as text, not set through searchParams
LoginRedirectUrl_Unencoded(pathname) ==
    [NewURL(LoginPath) EXCEPT !.search = <<"redirectTo", "=">> \o pathname]

\* lines 116-117
LoginRedirectUrl(pathname) ==
    SearchParamsSet(NewURL(LoginPath), <<"redirectTo">>, pathname)

\* lines 111-124
ProtectedRouteResponse(pathname, o) ==
    IF ~o.user \/ o.error
    THEN NextResponseRedirect(UrlHref(LoginRedirectUrl(pathname)))
    ELSE ResponseAfterGetUser(o)

\* lines 36-143: the try block, when nothing throws
MiddlewareTry(pathname, o) ==
    IF IsAuthRoute(pathname) THEN AuthRouteResponse(o)
    ELSE IF IsProtectedRoute(pathname) THEN ProtectedRouteResponse(pathname, o)
    ELSE IF IsPublicRoute(pathname) THEN ResponseAfterGetUser(o)
    ELSE ResponseAfterGetUser(o)

\* mutant: the catch block lets every request continue
MiddlewareCatch_FailOpen(pathname) == NextResponseNext({})

\* mutant: the catch block sends every request to the login page
MiddlewareCatch_FailClosed(pathname) ==
    NextResponseRedirect(UrlHref(NewURL(LoginPath)))

\* lines 145-170: the catch block
MiddlewareCatch(pathname) ==
    IF IsProtectedRoute(pathname)
    THEN NextResponseRedirect(UrlHref(NewURL(LoginPath)))
    ELSE NextResponseNext({})

MiddlewareResponse(pathname, o) ==
    IF o.throws THEN MiddlewareCatch(pathname) ELSE MiddlewareTry(pathname, o)

(***************************************************************************)
(* apps/web: the middleware (src/unnamed/part_007).                        *)
(***************************************************************************)
CookieNames == {"sb-access-token", "sb-refresh-token", "theme"}

\* updateSession(request) of @/lib/supabase/middleware: the Session Reader of
\* apps/web.  It validates (and refreshes) the session with the provider and
\* answers with the pass-through response carrying the refreshed credentials.
UpdateSession(req, o) == NextResponseNext(o.setAll)

\* lines 23-24
HasSession(cookies) ==
    "sb-access-token" \in cookies \/ "sb-refresh-token" \in cookies

\* lines 19-21
WebAuthEntryPaths ==
    { <<"/", "auth", "/", "login">>,
      <<"/", "auth", "/", "register">>,
      <<"/", "auth", "/", "forgot-password">> }

\* lines 4-34; url = request.nextUrl.clone() keeps the query of the request
WebMiddlewareResponse(req, o) ==
    LET updated == UpdateSession(req, o)
    IN  IF req.pathname \in WebAuthEntryPaths /\ HasSession(req.cookies)
        THEN NextResponseRedirect(Href(DashboardPath, req.search))
        ELSE updated

(***************************************************************************)
(* apps/web: the session manager and the server pages.                     *)
(***************************************************************************)
\* SupabaseSessionManager.getCurrentUser: the user, or null on an error
\* result, on no user and on an exception
GetCurrentUser(o) ==
    IF o.throws THEN "null"
    ELSE IF o.error \/ ~o.user THEN "null"
    ELSE "user"

\* redirect(path) of next/navigation
PageRedirect(path) ==
    [kind |-> "redirect", location |-> path, cookies |-> {}, body |-> "none"]

PageRender(body) ==
    [kind |-> "render", location |-> <<>>, cookies |-> {}, body |-> body]

\* mutant: the page renders without looking at the user
DashboardPageResponse_NeverRedirects(o) == PageRender("Dashboard")

\* DashboardPage
DashboardPageResponse(o) ==
    IF GetCurrentUser(o) = "null"
    THEN PageRedirect(LoginPath)
    ELSE PageRender("Dashboard")

\* LoginPage, RegisterPage, ForgotPasswordPage
AuthPageResponse(form, o) ==
    IF GetCurrentUser(o) # "null"
    THEN PageRedirect(DashboardPath)
    ELSE PageRender(form)

(***************************************************************************)
(* middlewareUtils.getRedirectDestination                                  *)
(***************************************************************************)
\* mutant: the "//" test is left out
GetRedirectDestination_NoDoubleSlashCheck(url) ==
    LET urlObj == ParseURL(url)
        redirectTo == SearchParamsGet(urlObj.search, <<"redirectTo">>)
    IN  IF ~urlObj.ok THEN DashboardPath
        ELSE IF /\ redirectTo.present /\ redirectTo.value # <<>>
                /\ StartsWith(redirectTo.value, <<"/">>)
             THEN redirectTo.value
        ELSE DashboardPath

GetRedirectDestination(url) ==
    LET urlObj == ParseURL(url)
        redirectTo == SearchParamsGet(urlObj.search, <<"redirectTo">>)
    IN  IF ~urlObj.ok THEN DashboardPath
        ELSE IF /\ redirectTo.present /\ redirectTo.value # <<>>
                /\ StartsWith(redirectTo.value, <<"/">>)
                /\ ~StartsWith(redirectTo.value, <<"/", "/">>)
             THEN redirectTo.value
        ELSE DashboardPath

(***************************************************************************)
(* Inputs.                                                                 *)
(***************************************************************************)
FirstSyms ==
    { "/", "auth", "dashboard", "profile", "settings", "workouts",
      "about", "contact", "privacy", "terms", "login", "x", "%" }

RestSyms == { "/", "login", "register", "forgot-password", "x", "%" }

\* request.nextUrl.pathname: always starts with "/"
Paths ==
    { <<"/">> } \cup
    { <<"/", w>> \o t : w \in FirstSyms, t \in SeqsUpTo(RestSyms, MaxTail) }

Outcomes == { o \in GetUserOutcomes : PossibleOutcome(o) }

NoRequest == [pathname |-> <<>>, search |-> <<>>, cookies |-> {}]
NoOutcome == [user |-> FALSE, error |-> FALSE, throws |-> FALSE, setAll |-> {}]
NoArg == [form |-> "none", target |-> <<>>, url |-> <<>>]

TargetSyms == { "/", "dashboard", "settings", "http", ":", "evil", "%" }

\* the values of redirectTo tried: every short string, and the spec's examples
Targets ==
    SeqsUpTo(TargetSyms, MaxTargetLen) \cup
    { <<"/", "dashboard", "/", "settings">>,
      <<"http", ":", "/", "/", "evil">>,
      <<"/", "/", "evil", "/", "dashboard">> }

\* the URL strings handed to getRedirectDestination
\*   set      the login URL the middleware builds, redirectTo = target
\*   raw      the same with the value typed unencoded into the address bar
\*   other    the target under another parameter name
\*   absent   the login URL with no query
\*   relative the login URL without scheme and host: new URL(url) throws
UrlForms == {"set", "raw", "other", "absent", "relative"}

UrlOf(form, target) ==
    CASE form = "set" ->
           UrlHref(SearchParamsSet(NewURL(LoginPath), <<"redirectTo">>, target))
      [] form = "raw" ->
           Href(LoginPath, <<"redirectTo", "=">> \o target)
      [] form = "other" ->
           UrlHref(SearchParamsSet(NewURL(LoginPath), <<"next">>, target))
      [] form = "absent" ->
           Href(LoginPath, <<>>)
      [] form = "relative" ->
           LoginPath \o <<"?", "redirectTo", "=">> \o Encode(target)

Symbols(s) == { s[i] : i \in DOMAIN s }

\* typed unencoded, a "%" would start an escape: those values are left out
Args ==
    { a \in { [form |-> f, target |-> t, url |-> UrlOf(f, t)] :
                f \in UrlForms, t \in Targets } :
        a.form = "raw" => "%" \notin Symbols(a.target) }

(***************************************************************************)
(* The browser, the deployment it talks to and the identity provider.      *)
(***************************************************************************)
Apps == {"web", "web-app"}

\* account: "none" no account, "pending" signed up and not verified,
\*          "verified" the email address is confirmed
\* session: the browser's cookies carry a session the provider accepts
\* the browser starts signed out; its user may have registered before
InitialWorlds == [app : Apps, account : {"none", "verified"}, session : {FALSE}]

\* supabase.auth.getUser() yields a user only for a live session
SessionAllows(o) == o.user => world.session

NoToast == [kind |-> "none", title |-> <<>>, description |-> <<>>]

ToastError(title, description) ==
    [kind |-> "error", title |-> title, description |-> description]

ToastSuccess(title, description) ==
    [kind |-> "success", title |-> title, description |-> description]

NoPage ==
    [location |-> <<>>, toast |-> NoToast, pushed |-> <<>>,
     isLoading |-> FALSE, view |-> "none"]

\* AuthProvider: useState(null), useState(null), useState(true)
NoAuth == [user |-> FALSE, session |-> FALSE, loading |-> TRUE]

(***************************************************************************)
(* The identity provider (Supabase Auth) as the handlers see it: a call    *)
(* answers { data, error }, or the client throws.  A message is a sequence *)
(* of pieces of text; "expired" and "invalid" are pieces of their own, so  *)
(* String.includes of either word is membership among the pieces.          *)
(***************************************************************************)
NoMessage == <<>>

InvalidLoginCredentials == <<"Invalid login credentials">>
EmailNotConfirmed == <<"Email not confirmed">>
UserAlreadyRegistered == <<"User already registered">>
PasswordTooShort == <<"Password should be at least 6 characters">>
InvalidEmailFormat == <<"Unable to validate email address: ", "invalid", " format">>
SignupDisabled == <<"Signup is disabled">>
\* failures the applications have no case for
TokenExpired == <<"Token has ", "expired", " or is ", "invalid">>
RateLimited == <<"Request rate limit reached">>
\* what fetch throws when the provider cannot be reached
FetchFailed == <<"fetch failed">>

Includes(message, word) == word \in Symbols(message)

Ok(session) ==
    [kind |-> "ok", message |-> NoMessage, user |-> TRUE, session |-> session]

ErrorReply(message) ==
    [kind |-> "error", message |-> message, user |-> FALSE, session |-> FALSE]

Thrown(message) ==
    [kind |-> "throws", message |-> message, user |-> FALSE, session |-> FALSE]

NoReply == [kind |-> "none", message |-> NoMessage, user |-> FALSE, session |-> FALSE]

Credentials == {"right", "wrong"}

\* supabase.auth.signInWithPassword: a session only for the right password
\* of a verified account
SignInWithPassword(w, credentials) ==
    (IF w.account = "verified" /\ credentials = "right"
     THEN {Ok(TRUE)} ELSE {})
    \cup (IF w.account = "pending" /\ credentials = "right"
          THEN {ErrorReply(EmailNotConfirmed)} ELSE {})
    \cup (IF w.account = "none" \/ credentials = "wrong"
          THEN {ErrorReply(InvalidLoginCredentials)} ELSE {})
    \cup {ErrorReply(RateLimited), Thrown(FetchFailed)}

\* the session cookies are written when the provider answers with a session
WorldAfterSignIn(w, reply) ==
    IF reply.kind = "ok" /\ reply.session
    THEN [w EXCEPT !.session = TRUE]
    ELSE w

(***************************************************************************)
(* Sign-in.                                                                *)
(***************************************************************************)
InvalidCredentialsText ==
    <<"Invalid email or password. Please check your credentials and try again.">>

UnexpectedErrorText ==
    <<"An unexpected error occurred. Please try again or contact support.">>

\* apps/web-app SupabaseAuthService.mapAuthError: switch (error.message)
MapAuthError(message) ==
    CASE message = InvalidLoginCredentials -> InvalidCredentialsText
      [] message = EmailNotConfirmed ->
           <<"Please verify your email before signing in. Check your inbox for a verification link.">>
      [] message = UserAlreadyRegistered ->
           <<"An account with this email already exists. Please sign in instead.">>
      [] message = PasswordTooShort ->
           <<"Password must be at least 6 characters long.">>
      [] message = InvalidEmailFormat ->
           <<"Please enter a valid email address.">>
      [] message = SignupDisabled ->
           <<"Account registration is currently disabled. Please contact support.">>
      [] OTHER -> UnexpectedErrorText

\* apps/web-app SupabaseAuthService.signIn
WebAppSignIn(reply) ==
    CASE reply.kind = "error" ->
           [user |-> FALSE, session |-> FALSE,
            error |-> MapAuthError(reply.message)]
      [] reply.kind = "ok" ->
           [user |-> reply.user, session |-> reply.session,
            error |-> NoMessage]
      [] reply.kind = "throws" ->
           [user |-> FALSE, session |-> FALSE, error |-> reply.message]

\* AuthProvider.signIn: the string handed to the form
AuthProviderSignIn(reply) == [error |-> WebAppSignIn(reply).error]

\* the auth state change listener sets the held user and session; signIn's
\* finally block ends the loading state
AuthAfterSignIn(a, reply) ==
    IF reply.kind = "ok" /\ reply.session
    THEN [user |-> TRUE, session |-> TRUE, loading |-> FALSE]
    ELSE [a EXCEPT !.loading = FALSE]

LoginFormOnSubmit_PushesOnError(pg, reply) ==
    LET result == AuthProviderSignIn(reply)
    IN  IF result.error # NoMessage
        THEN [pg EXCEPT !.toast = ToastError(<<"Authentication failed">>,
                                             result.error),
                        !.pushed = DashboardPath,
                        !.isLoading = FALSE]
        ELSE [pg EXCEPT !.toast = ToastSuccess(<<"Welcome back!">>,
                                   <<"You have been successfully signed in">>),
                        !.pushed = DashboardPath,
                        !.isLoading = FALSE]

\* apps/web-app LoginForm.onSubmit; the router.push it schedules one second
\* after the success toast is part of the step
LoginFormOnSubmit(pg, reply) ==
    LET result == AuthProviderSignIn(reply)
    IN  IF result.error # NoMessage
        THEN [pg EXCEPT !.toast = ToastError(<<"Authentication failed">>,
                                             result.error),
                        !.isLoading = FALSE]
        ELSE [pg EXCEPT !.toast = ToastSuccess(<<"Welcome back!">>,
                                   <<"You have been successfully signed in">>),
                        !.pushed = DashboardPath,
                        !.isLoading = FALSE]

\* the catch blocks of the apps/web services:
\* error instanceof Error ? error.message : 'Unknown error occurred'
\* a thrown value that is no Error carries no message
ThrownMessage(reply) ==
    IF reply.message = NoMessage THEN <<"Unknown error occurred">>
    ELSE reply.message

\* mutant: a reply without a session counts as success
WebSignIn_NoSessionCheck(reply) ==
    CASE reply.kind = "error" -> [data |-> FALSE, error |-> reply.message]
      [] reply.kind = "ok" -> [data |-> TRUE, error |-> NoMessage]
      [] reply.kind = "throws" ->
           [data |-> FALSE, error |-> ThrownMessage(reply)]

\* apps/web SupabaseAuthService.signIn
WebSignIn(reply) ==
    CASE reply.kind = "error" -> [data |-> FALSE, error |-> reply.message]
      [] reply.kind = "ok" /\ ~reply.session ->
           [data |-> FALSE, error |-> <<"Failed to create session">>]
      [] reply.kind = "ok" -> [data |-> TRUE, error |-> NoMessage]
      [] reply.kind = "throws" ->
           [data |-> FALSE, error |-> ThrownMessage(reply)]

NoResult ==
    [error |-> NoMessage, success |-> NoMessage, redirect |-> <<>>,
     calls |-> <<>>]

LoginAction_CallsBeforeValidating(valid, reply) ==
    IF ~valid
    THEN [NoResult EXCEPT !.error = <<"Invalid form data">>,
                          !.calls = <<"signInWithPassword">>]
    ELSE LET authResult == WebSignIn(reply)
         IN  IF authResult.error # NoMessage
             THEN [NoResult EXCEPT !.error = authResult.error,
                                   !.calls = <<"signInWithPassword">>]
             ELSE [NoResult EXCEPT !.redirect = DashboardPath,
                                   !.calls = <<"signInWithPassword">>]

\* apps/web loginAction(formData); valid is the answer of loginSchema.safeParse
LoginAction(valid, reply) ==
    IF ~valid
    THEN [NoResult EXCEPT !.error = <<"Invalid form data">>]
    ELSE LET authResult == WebSignIn(reply)
         IN  IF authResult.error # NoMessage
             THEN [NoResult EXCEPT !.error = authResult.error,
                                   !.calls = <<"signInWithPassword">>]
             ELSE [NoResult EXCEPT !.redirect = DashboardPath,
                                   !.calls = <<"signInWithPassword">>]

\* the apps/web forms' onSubmit: toast.error(result.error) when the action
\* returned an error, else the redirect of the action takes the page away
WebFormOnSubmit(pg, result) ==
    IF result.error # NoMessage
    THEN [pg EXCEPT !.toast = ToastError(result.error, NoMessage),
                    !.isLoading = FALSE]
    ELSE [pg EXCEPT !.isLoading = TRUE, !.pushed = result.redirect]

(***************************************************************************)
(* Sign-out.                                                               *)
(***************************************************************************)
HomePath == <<"/">>

\* supabase.auth.signOut
SignOutReplies == {Ok(FALSE), ErrorReply(RateLimited), Thrown(FetchFailed)}

\* the session is revoked when the provider accepted the call
WorldAfterSignOut(w, reply) ==
    IF reply.kind = "ok" THEN [w EXCEPT !.session = FALSE] ELSE w

\* apps/web-app SupabaseAuthService.signOut: logs, never throws
WebAppSignOut(reply) ==
    CASE reply.kind = "ok" -> [threw |-> FALSE]
      [] reply.kind = "error" -> [threw |-> FALSE]
      [] reply.kind = "throws" -> [threw |-> FALSE]

AuthProviderSignOut_NoFinally(a, reply) ==
    [auth |-> [user |-> FALSE, session |-> FALSE, loading |-> TRUE],
     pushed |-> HomePath, raised |-> FALSE]

\* AuthProvider.signOut: the try block, the catch block and the finally
AuthProviderSignOut(a, reply) ==
    IF ~WebAppSignOut(reply).threw
    THEN [auth |-> [user |-> FALSE, session |-> FALSE, loading |-> FALSE],
          pushed |-> HomePath, raised |-> FALSE]
    ELSE [auth |-> [user |-> FALSE, session |-> FALSE, loading |-> FALSE],
          pushed |-> HomePath, raised |-> FALSE]

\* AuthProvider's mount effect: getInitialSession
AuthAfterMount(held) == [user |-> held, session |-> held, loading |-> FALSE]

\* apps/web SupabaseAuthService.signOut
WebSignOut(reply) ==
    CASE reply.kind = "error" -> [data |-> FALSE, error |-> reply.message]
      [] reply.kind = "ok" -> [data |-> TRUE, error |-> NoMessage]
      [] reply.kind = "throws" ->
           [data |-> FALSE, error |-> ThrownMessage(reply)]

\* apps/web signOutAction (dashboard/page.tsx)
SignOutAction(reply) ==
    LET authResult == WebSignOut(reply)
    IN  IF authResult.error # NoMessage
        THEN [NoResult EXCEPT !.error = authResult.error,
                              !.calls = <<"signOut">>]
        ELSE [NoResult EXCEPT !.redirect = HomePath,
                              !.calls = <<"signOut">>]

\* apps/web SignOutButton.handleSignOut
HandleSignOut(pg, result) ==
    IF result.error # NoMessage
    THEN [pg EXCEPT !.toast = ToastError(result.error, NoMessage),
                    !.isLoading = FALSE]
    ELSE [pg EXCEPT !.isLoading = TRUE, !.pushed = result.redirect]

(***************************************************************************)
(* Registration and password reset in apps/web.  valid is the answer of   *)
(* the schema's safeParse; calls lists the provider operations a handler   *)
(* invoked.                                                                *)
(***************************************************************************)
AuthSessionMissing == <<"Auth session missing!">>

\* supabase.auth.signUp with email confirmation required: a user and no
\* session
SignUpReplies(w) ==
    (IF w.account = "none"
     THEN {Ok(FALSE)} ELSE {ErrorReply(UserAlreadyRegistered)})
    \cup {ErrorReply(RateLimited), Thrown(FetchFailed)}

WorldAfterSignUp(w, reply) ==
    IF reply.kind = "ok" THEN [w EXCEPT !.account = "pending"] ELSE w

\* supabase.auth.resetPasswordForEmail
ResetPasswordForEmailReplies ==
    {Ok(FALSE), ErrorReply(RateLimited), Thrown(FetchFailed)}

\* supabase.auth.updateUser: needs the session the recovery link opened
UpdateUserReplies(w) ==
    (IF w.session THEN {Ok(TRUE)} ELSE {ErrorReply(AuthSessionMissing)})
    \cup {ErrorReply(TokenExpired), ErrorReply(RateLimited),
          Thrown(FetchFailed)}

\* apps/web SupabaseAuthService.signUp
WebSignUp(reply) ==
    CASE reply.kind = "error" -> [data |-> FALSE, error |-> reply.message]
      [] reply.kind = "ok" /\ ~reply.user ->
           [data |-> FALSE, error |-> <<"Failed to create user">>]
      [] reply.kind = "ok" -> [data |-> TRUE, error |-> NoMessage]
      [] reply.kind = "throws" ->
           [data |-> FALSE, error |-> ThrownMessage(reply)]

\* apps/web SupabaseAuthService.requestPasswordReset
WebRequestPasswordReset(reply) ==
    CASE reply.kind = "error" -> [data |-> FALSE, error |-> reply.message]
      [] reply.kind = "ok" -> [data |-> TRUE, error |-> NoMessage]
      [] reply.kind = "throws" ->
           [data |-> FALSE, error |-> ThrownMessage(reply)]

\* apps/web SupabaseAuthService.updatePassword
WebUpdatePassword(reply) ==
    CASE reply.kind = "error" -> [data |-> FALSE, error |-> reply.message]
      [] reply.kind = "ok" /\ ~reply.user ->
           [data |-> FALSE, error |-> <<"Failed to update password">>]
      [] reply.kind = "ok" -> [data |-> TRUE, error |-> NoMessage]
      [] reply.kind = "throws" ->
           [data |-> FALSE, error |-> ThrownMessage(reply)]

CheckEmailPath == <<"/", "auth", "/", "check-email">>

RegisterAction_RedirectsToDashboard(valid, reply) ==
    IF ~valid
    THEN [NoResult EXCEPT !.error = <<"Invalid form data">>]
    ELSE LET authResult == WebSignUp(reply)
         IN  IF authResult.error # NoMessage
             THEN [NoResult EXCEPT !.error = authResult.error,
                                   !.calls = <<"signUp">>]
             ELSE [NoResult EXCEPT !.redirect = DashboardPath,
                                   !.calls = <<"signUp">>]

\* apps/web registerAction(formData)
RegisterAction(valid, reply) ==
    IF ~valid
    THEN [NoResult EXCEPT !.error = <<"Invalid form data">>]
    ELSE LET authResult == WebSignUp(reply)
         IN  IF authResult.error # NoMessage
             THEN [NoResult EXCEPT !.error = authResult.error,
                                   !.calls = <<"signUp">>]
             ELSE [NoResult EXCEPT !.redirect = CheckEmailPath,
                                   !.calls = <<"signUp">>]

\* apps/web forgotPasswordAction(formData)
ForgotPasswordAction(valid, reply) ==
    IF ~valid
    THEN [NoResult EXCEPT !.error = <<"Invalid email address">>]
    ELSE LET result == WebRequestPasswordReset(reply)
         IN  IF result.error # NoMessage
             THEN [NoResult EXCEPT !.error = result.error,
                                   !.calls = <<"resetPasswordForEmail">>]
             ELSE [NoResult EXCEPT !.success = <<"Password reset email sent">>,
                                   !.calls = <<"resetPasswordForEmail">>]

PasswordUpdatedHref ==
    LoginPath \o <<"?", "message", "=", "Password updated successfully">>

\* apps/web resetPasswordAction(formData)
ResetPasswordAction(valid, reply) ==
    IF ~valid
    THEN [NoResult EXCEPT !.error = <<"Invalid password data">>]
    ELSE LET authResult == WebUpdatePassword(reply)
         IN  IF authResult.error # NoMessage
             THEN [NoResult EXCEPT !.error = authResult.error,
                                   !.calls = <<"updateUser">>]
             ELSE [NoResult EXCEPT !.redirect = PasswordUpdatedHref,
                                   !.calls = <<"updateUser">>]

\* apps/web ForgotPasswordForm.onSubmit
ForgotPasswordFormOnSubmit(pg, result) ==
    IF result.error # NoMessage
    THEN [pg EXCEPT !.toast = ToastError(result.error, NoMessage),
                    !.isLoading = FALSE]
    ELSE [pg EXCEPT !.toast = ToastSuccess(<<"Password reset email sent!">>,
                                           NoMessage),
                    !.view = "isSuccess",
                    !.isLoading = FALSE]

(***************************************************************************)
(* Password reset completion in apps/web-app.                              *)
(***************************************************************************)
\* apps/web-app SupabaseAuthService.updatePassword; match: the password and
\* its confirmation are equal
WebAppUpdatePassword(match, reply) ==
    CASE ~match ->
           [user |-> FALSE, session |-> FALSE,
            error |-> <<"Passwords do not match">>]
      [] reply.kind = "error" ->
           [user |-> FALSE, session |-> FALSE,
            error |-> MapAuthError(reply.message)]
      [] reply.kind = "ok" ->
           [user |-> reply.user, session |-> FALSE, error |-> NoMessage]
      [] reply.kind = "throws" ->
           [user |-> FALSE, session |-> FALSE, error |-> reply.message]

\* AuthProvider.updatePassword
AuthProviderUpdatePassword(match, reply) ==
    [error |-> WebAppUpdatePassword(match, reply).error]

\* ResetPasswordForm.onSubmit; the router.push it schedules two seconds after
\* the success toast is part of the step
ResetPasswordFormOnSubmit(pg, match, reply) ==
    LET result == AuthProviderUpdatePassword(match, reply)
    IN  IF result.error # NoMessage
        THEN IF Includes(result.error, "expired")
                  \/ Includes(result.error, "invalid")
             THEN [pg EXCEPT
                     !.toast = ToastError(<<"Reset link expired">>,
                       <<"This password reset link has expired. Please request a new one.">>),
                     !.isLoading = FALSE]
             ELSE [pg EXCEPT
                     !.toast = ToastError(<<"Password update failed">>,
                                          result.error),
                     !.isLoading = FALSE]
        ELSE [pg EXCEPT
                !.view = "isResetComplete",
                !.toast = ToastSuccess(<<"Password updated successfully!">>,
                            <<"You can now sign in with your new password">>),
                !.pushed = LoginPath,
                !.isLoading = FALSE]

(***************************************************************************)
(* Registration in apps/web-app.                                           *)
(***************************************************************************)
\* apps/web-app SupabaseAuthService.signUp; match: the password and its
\* confirmation are equal
WebAppSignUp(match, reply) ==
    CASE ~match ->
           [user |-> FALSE, session |-> FALSE,
            error |-> <<"Passwords do not match">>]
      [] reply.kind = "error" ->
           [user |-> FALSE, session |-> FALSE,
            error |-> MapAuthError(reply.message)]
      [] reply.kind = "ok" ->
           [user |-> reply.user, session |-> reply.session,
            error |-> NoMessage]
      [] reply.kind = "throws" ->
           [user |-> FALSE, session |-> FALSE, error |-> reply.message]

\* AuthProvider.signUp
AuthProviderSignUp(match, reply) ==
    [error |-> WebAppSignUp(match, reply).error]

\* apps/web-app RegisterForm.onSubmit
RegisterFormOnSubmit(pg, match, reply) ==
    LET result == AuthProviderSignUp(match, reply)
    IN  IF result.error # NoMessage
        THEN [pg EXCEPT !.toast = ToastError(<<"Registration failed">>,
                                             result.error),
                        !.isLoading = FALSE]
        ELSE [pg EXCEPT
                !.view = "isRegistered",
                !.toast = ToastSuccess(<<"Account created successfully!">>,
                  <<"Please check your email and click the verification link to activate your account">>),
                !.isLoading = FALSE]

(***************************************************************************)
(* The email-confirmation handler of apps/web: GET /auth/confirm.          *)
(***************************************************************************)
ConfirmPath == <<"/", "auth", "/", "confirm">>
ResetPasswordPath == <<"/", "auth", "/", "reset-password">>

Some(v) == [present |-> TRUE, value |-> v]

\* a query string: the parameters that are present, each value encoded
RECURSIVE Query(_)
Query(params) ==
    IF params = <<>> THEN <<>>
    ELSE LET h     == Head(params)
             rest  == Query(Tail(params))
             piece == IF h.v.present
                      THEN <<h.name, "=">> \o Encode(h.v.value)
                      ELSE <<>>
         IN  IF piece = <<>> THEN rest
             ELSE IF rest = <<>> THEN piece
             ELSE piece \o <<"&">> \o rest

ConfirmUrl(token_hash, type, next) ==
    Href(ConfirmPath,
         Query(<<[name |-> "token_hash", v |-> token_hash],
                 [name |-> "type", v |-> type],
                 [name |-> "next", v |-> next]>>))

\* EmailOtpType of supabase-js
EmailOtpTypes ==
    { <<"signup">>, <<"invite">>, <<"magiclink">>, <<"recovery">>,
      <<"email_change">>, <<"email">> }

\* supabase.auth.verifyOtp({ type, token_hash }): a token exists only for an
\* account, and only for one of the provider's types
VerifyOtpReplies(w, type) ==
    (IF type \in EmailOtpTypes /\ w.account # "none"
     THEN {Ok(TRUE)} ELSE {})
    \cup {ErrorReply(TokenExpired), Thrown(FetchFailed)}

\* a verified token confirms the address and opens a session
WorldAfterVerifyOtp(w, reply) ==
    IF reply.kind = "ok"
    THEN [w EXCEPT !.account = "verified", !.session = TRUE]
    ELSE w

InvalidLinkHref ==
    LoginPath \o <<"?", "error", "=", "Invalid confirmation link">>

FailedVerifyHref ==
    LoginPath \o <<"?", "error", "=", "Failed to verify token">>

EmailVerifiedHref ==
    DashboardPath \o <<"?", "message", "=", "Email verified successfully">>

ResetVerifiedHref == ResetPasswordPath \o <<"?", "verified", "=", "true">>

\* the handler ended with an exception nothing catches
HandlerThrew ==
    [kind |-> "error", location |-> <<>>, cookies |-> {}, body |-> "none"]

ConfirmGet_IgnoresVerifyError(url, reply) ==
    LET search     == ParseURL(url).search
        token_hash == SearchParamsGet(search, <<"token_hash">>)
        type       == SearchParamsGet(search, <<"type">>)
        nextParam  == SearchParamsGet(search, <<"next">>)
        next       == IF nextParam.present THEN nextParam.value ELSE <<"/">>
        Falsy(v)   == ~v.present \/ v.value = <<>>
    IN  IF Falsy(token_hash) \/ Falsy(type)
        THEN [response |-> PageRedirect(InvalidLinkHref), calls |-> <<>>]
        ELSE IF reply.kind = "throws"
        THEN [response |-> HandlerThrew, calls |-> <<"verifyOtp">>]
        ELSE IF type.value = <<"email">>
        THEN [response |-> PageRedirect(EmailVerifiedHref),
              calls |-> <<"verifyOtp">>]
        ELSE IF type.value = <<"recovery">>
        THEN [response |-> PageRedirect(ResetVerifiedHref),
              calls |-> <<"verifyOtp">>]
        ELSE [response |-> PageRedirect(next), calls |-> <<"verifyOtp">>]

\* GET(request) of auth/confirm/route.ts; redirect() ends the handler
ConfirmGet(url, reply) ==
    LET search     == ParseURL(url).search
        token_hash == SearchParamsGet(search, <<"token_hash">>)
        type       == SearchParamsGet(search, <<"type">>)
        nextParam  == SearchParamsGet(search, <<"next">>)
        next       == IF nextParam.present THEN nextParam.value ELSE <<"/">>
        Falsy(v)   == ~v.present \/ v.value = <<>>
    IN  IF Falsy(token_hash) \/ Falsy(type)
        THEN [response |-> PageRedirect(InvalidLinkHref), calls |-> <<>>]
        ELSE IF reply.kind = "throws"
        THEN [response |-> HandlerThrew, calls |-> <<"verifyOtp">>]
        ELSE IF reply.kind = "error"
        THEN [response |-> PageRedirect(FailedVerifyHref),
              calls |-> <<"verifyOtp">>]
        ELSE IF type.value = <<"email">>
        THEN [response |-> PageRedirect(EmailVerifiedHref),
              calls |-> <<"verifyOtp">>]
        ELSE IF type.value = <<"recovery">>
        THEN [response |-> PageRedirect(ResetVerifiedHref),
              calls |-> <<"verifyOtp">>]
        ELSE [response |-> PageRedirect(next), calls |-> <<"verifyOtp">>]

\* the links tried: token_hash and type absent, empty or given; next absent,
\* a local path or another site
TokenHashes == {NoValue, Some(<<>>), Some(<<"tok">>)}

LinkTypes ==
    {NoValue, Some(<<>>), Some(<<"email">>), Some(<<"recovery">>),
     Some(<<"magiclink">>), Some(<<"bogus">>)}

NextTargets ==
    {NoValue, Some(DashboardPath), Some(<<"/", "welcome">>),
     Some(<<"http", ":", "/", "/", "evil">>)}

(***************************************************************************)
(* The authentication callback page of apps/web-app and the navigation it  *)
(* asks for.                                                               *)
(***************************************************************************)
CallbackPath == <<"/", "auth", "/", "callback">>

\* config.matcher: "/x/:path*" is /x and everything below it, the auth
\* routes are matched exactly
Matcher(pathname) ==
    \/ \E word \in {"dashboard", "profile", "settings", "workouts"} :
         \/ pathname = <<"/", word>>
         \/ StartsWith(pathname, <<"/", word, "/">>)
    \/ \E word \in {"login", "register", "forgot-password", "reset-password",
                    "callback"} :
         pathname = <<"/", "auth", "/", word>>

ToastInfo(title, description) ==
    [kind |-> "info", title |-> title, description |-> description]

\* supabase.auth.getSession() in the browser
GetSessionReplies(w) ==
    {[Ok(w.session) EXCEPT !.user = w.session],
     ErrorReply(RateLimited), Thrown(FetchFailed)}

\* the emailed link: "valid" brings the browser back with a session,
\* "expired" with error parameters, "none" is a visit without any link
Links == {"valid", "expired", "none"}

WorldAfterLink(w, link) ==
    IF link = "valid"
    THEN [w EXCEPT !.account = "verified", !.session = TRUE]
    ELSE w

CallbackTypes ==
    {NoValue, Some(<<"signup">>), Some(<<"recovery">>), Some(<<"invite">>),
     Some(<<"magiclink">>)}

CallbackSearch(link, type) ==
    Query(<<[name |-> "error",
             v |-> IF link = "expired" THEN Some(<<"access_denied">>)
                                       ELSE NoValue],
            [name |-> "error_description",
             v |-> IF link = "expired"
                   THEN Some(<<"Email link is invalid or has expired">>)
                   ELSE NoValue],
            [name |-> "type", v |-> type]>>)

\* the catch block of handleAuthCallback
CallbackCaught(pg, message) ==
    LET errorMessage == IF message # NoMessage THEN message
                        ELSE <<"An error occurred during authentication">>
    IN  [page |-> [pg EXCEPT !.toast = ToastError(<<"Authentication failed">>,
                                                  errorMessage),
                             !.isLoading = FALSE],
         error |-> errorMessage, success |-> NoMessage]

CallbackSucceeded(pg, success, toast, target) ==
    [page |-> [pg EXCEPT !.toast = toast, !.pushed = target,
                         !.isLoading = FALSE],
     error |-> NoMessage, success |-> success]

\* handleAuthCallback; the router.push it schedules is part of the step
HandleAuthCallback(pg, search, reply) ==
    LET errorParam       == SearchParamsGet(search, <<"error">>)
        errorDescription == SearchParamsGet(search, <<"error_description">>)
        type             == SearchParamsGet(search, <<"type">>)
    IN  IF errorParam.present /\ errorParam.value # <<>>
        THEN CallbackCaught(pg, IF errorDescription.value # <<>>
                                THEN errorDescription.value
                                ELSE errorParam.value)
        ELSE IF reply.kind \in {"error", "throws"}
        THEN CallbackCaught(pg, reply.message)
        ELSE IF type = Some(<<"signup">>)
        THEN IF reply.session
             THEN CallbackSucceeded(pg,
                    <<"Email verified successfully! Welcome to Open Workouts.">>,
                    ToastSuccess(<<"Email verified!">>,
                      <<"Your account is now active. Redirecting to dashboard...">>),
                    DashboardPath)
             ELSE CallbackCaught(pg,
                    <<"Email verification failed. Please try clicking the link again.">>)
        ELSE IF type = Some(<<"recovery">>)
        THEN CallbackSucceeded(pg,
               <<"Password reset link verified. You can now set your new password.">>,
               ToastSuccess(<<"Reset link verified">>,
                            <<"Redirecting to password reset form...">>),
               ResetPasswordPath)
        ELSE IF type = Some(<<"invite">>)
        THEN CallbackSucceeded(pg,
               <<"Invitation accepted! Please complete your account setup.">>,
               pg.toast, DashboardPath)
        ELSE IF reply.session
        THEN CallbackSucceeded(pg, <<"Authentication successful!">>,
               ToastSuccess(<<"Welcome back!">>,
                            <<"Redirecting to dashboard...">>),
               DashboardPath)
        ELSE CallbackSucceeded(pg, NoMessage,
               ToastInfo(<<"Session expired">>, <<"Please sign in again">>),
               LoginPath)

\* what AuthCallbackComponent renders from its three pieces of state
CallbackRender(isLoading, error, success) ==
    [title |->
        IF isLoading THEN "Processing..."
        ELSE IF error # NoMessage THEN "Authentication Failed"
        ELSE "Success!",
     description |->
        IF isLoading THEN "Please wait while we process your authentication"
        ELSE IF error # NoMessage
             THEN "There was a problem with your authentication"
        ELSE "Authentication completed successfully",
     errorBox |-> error # NoMessage,
     successBox |-> success # NoMessage]

(***************************************************************************)
(* The remaining methods of the apps/web services, and every method put to *)
(* every answer of the provider.  A result is { data, error }: data tells  *)
(* whether a payload is returned, error is the message, or none.           *)
(***************************************************************************)
\* apps/web SupabaseAuthService.verifyEmailToken
WebVerifyEmailToken(reply) ==
    CASE reply.kind = "error" -> [data |-> FALSE, error |-> reply.message]
      [] reply.kind = "ok" /\ ~reply.session ->
           [data |-> FALSE, error |-> <<"Failed to verify email">>]
      [] reply.kind = "ok" -> [data |-> TRUE, error |-> NoMessage]
      [] reply.kind = "throws" ->
           [data |-> FALSE, error |-> ThrownMessage(reply)]

\* apps/web SupabaseSessionManager.refreshSession
RefreshSession(reply) ==
    CASE reply.kind = "error" -> [data |-> FALSE, error |-> reply.message]
      [] reply.kind = "ok" /\ ~reply.session ->
           [data |-> FALSE, error |-> <<"Failed to refresh session">>]
      [] reply.kind = "ok" -> [data |-> TRUE, error |-> NoMessage]
      [] reply.kind = "throws" ->
           [data |-> FALSE, error |-> ThrownMessage(reply)]

\* apps/web SupabaseSessionManager.getSession: the session or null
GetSession(reply) ==
    CASE reply.kind = "throws" -> "null"
      [] reply.kind = "error" \/ ~reply.session -> "null"
      [] OTHER -> "session"

\* apps/web SupabaseSessionManager.setSession and clearSession: nothing is
\* returned, an exception is logged
SessionManagerVoid(reply) == [data |-> FALSE, error |-> NoMessage]

\* the answers of a supabase.auth call: a user with a session, a user
\* without one, neither, an error, a thrown Error, a thrown value that is no
\* Error
ProviderOutcomes ==
    { Ok(TRUE), Ok(FALSE), [Ok(FALSE) EXCEPT !.user = FALSE],
      ErrorReply(RateLimited), Thrown(FetchFailed), Thrown(NoMessage) }

ServiceMethods ==
    { "signUp", "signIn", "signOut", "verifyEmailToken",
      "requestPasswordReset", "updatePassword", "getCurrentUser",
      "getSession", "refreshSession", "setSession", "clearSession" }

ServiceResult(method, reply) ==
    CASE method = "signUp" -> WebSignUp(reply)
      [] method = "signIn" -> WebSignIn(reply)
      [] method = "signOut" -> WebSignOut(reply)
      [] method = "verifyEmailToken" -> WebVerifyEmailToken(reply)
      [] method = "requestPasswordReset" -> WebRequestPasswordReset(reply)
      [] method = "updatePassword" -> WebUpdatePassword(reply)
      [] method = "refreshSession" -> RefreshSession(reply)
      [] method = "getCurrentUser" ->
           [data |-> GetCurrentUser([user |-> reply.user,
                                     error |-> reply.kind = "error",
                                     throws |-> reply.kind = "throws",
                                     setAll |-> {}]) # "null",
            error |-> NoMessage]
      [] method = "getSession" ->
           [data |-> GetSession(reply) # "null", error |-> NoMessage]
      [] OTHER -> SessionManagerVoid(reply)

(***************************************************************************)
(* The client forms of apps/web when the call of the server action rejects *)
(* (the request fails, or the action throws outside its own try block).    *)
(***************************************************************************)
WebClientForms ==
    {"LoginForm", "RegisterForm", "ForgotPasswordForm", "SignOutButton"}

\* onSubmit / handleSignOut: setIsLoading(true), then the await throws and
\* the rest of the handler does not run; there is no catch and no finally
OnSubmitRejected(pg) == [pg EXCEPT !.isLoading = TRUE]

(***************************************************************************)
(* The two session-expiry checks of apps/web-app.  A session is null or an *)
(* object whose expires_at (seconds) may be missing; now is Date.now()     *)
(* (milliseconds).                                                         *)
(***************************************************************************)
NoExpiresAt == [present |-> FALSE, value |-> 0]

\* !x of JavaScript for an optional number: undefined and 0 are falsy
Falsy(x) == ~x.present \/ x.value = 0

\* middlewareUtils.isSessionExpired(session)
MiddlewareUtilsIsSessionExpired(session, now) ==
    IF session.null \/ Falsy(session.expires_at) THEN TRUE
    ELSE LET expirationBuffer == 5 * 60 * 1000
             expirationTime   == session.expires_at.value * 1000
                                    - expirationBuffer
         IN  now >= expirationTime

\* SupabaseSessionManager.isSessionExpired(session), session not null
SessionManagerIsSessionExpired(session, now) ==
    IF Falsy(session.expires_at) THEN FALSE
    ELSE LET expirationBuffer == 5 * 60 * 1000
             expirationTime   == session.expires_at.value * 1000
                                    - expirationBuffer
         IN  now >= expirationTime

\* SupabaseSessionManager.isAuthenticated() for the session the client holds
IsAuthenticated(session, now) ==
    ~session.null /\ ~SessionManagerIsSessionExpired(session, now)

\* the sessions and the clock readings tried: around expires_at * 1000 minus
\* five minutes
ExpiresAtValues ==
    {NoExpiresAt} \cup
    { [present |-> TRUE, value |-> v] : v \in {0, 300, 301, 1000} }

Sessions ==
    { [null |-> TRUE, expires_at |-> NoExpiresAt] } \cup
    { [null |-> FALSE, expires_at |-> e] : e \in ExpiresAtValues }

NowValues == {0, 999, 1000, 1001, 699999, 700000, 700001}

(***************************************************************************)
(* apps/web-app AuthProvider (use-auth.tsx): its asynchronous work.  The   *)
(* effect starts getInitialSession and subscribes the listener; every      *)
(* operation sets loading, awaits the auth service and ends in its finally *)
(* block.  Between two awaits anything else may run.                       *)
(***************************************************************************)
\* operations that may be in flight at the same time
MaxInFlight == 2

Operations == {"signIn", "signUp", "signOut", "resetPassword", "updatePassword"}

\* load           where getInitialSession stands
\* currentSession what its first await read
\* failed         one of its two reads ended in the session manager's catch
\* ops            the operations called and not settled
NoTasks ==
    [load |-> "none", currentSession |-> FALSE, failed |-> FALSE, ops |-> <<>>]

\* the effect of the provider: getInitialSession() runs up to its first await
TasksAfterEffect == [NoTasks EXCEPT !.load = "getCurrentSession"]

\* the callback handed to sessionManager.onAuthStateChange
Listener(a, session) ==
    [user |-> session, session |-> session, loading |-> FALSE]

\* getInitialSession after its second await
InitialSessionLoaded(a, currentSession, currentUser) ==
    [user |-> currentUser, session |-> currentSession, loading |-> FALSE]

\* the provider's answers to the call an operation awaits
OperationReplies(w, name) ==
    CASE name = "signIn" ->
           UNION { SignInWithPassword(w, c) : c \in Credentials }
      [] name = "signUp" -> SignUpReplies(w)
      [] name = "signOut" -> SignOutReplies
      [] name = "resetPassword" -> ResetPasswordForEmailReplies
      [] name = "updatePassword" -> UpdateUserReplies(w)

WorldAfterOperation(w, name, reply) ==
    CASE name = "signIn" -> WorldAfterSignIn(w, reply)
      [] name = "signUp" -> WorldAfterSignUp(w, reply)
      [] name = "signOut" -> WorldAfterSignOut(w, reply)
      [] OTHER -> w

\* the held state once the awaited call has answered: the listener has run
\* if the provider's state changed, then the rest of the operation
AuthAfterOperation(a, name, reply) ==
    CASE name = "signIn" -> AuthAfterSignIn(a, reply)
      [] name = "signOut" -> AuthProviderSignOut(a, reply).auth
      [] name = "updatePassword" /\ reply.kind = "ok" ->
           [Listener(a, reply.session) EXCEPT !.loading = FALSE]
      [] OTHER -> [a EXCEPT !.loading = FALSE]

RemoveAt(s, i) == SubSeq(s, 1, i - 1) \o SubSeq(s, i + 1, Len(s))

(***************************************************************************)
(* One navigation of the browser: the gate answers, then the page; the     *)
(* browser follows every redirect with the same cookies, and the provider  *)
(* answers every session check of the navigation the same way.             *)
(***************************************************************************)
\* redirects the browser follows before it gives up
MaxRedirects == 3

\* the server pages of apps/web; a page not listed renders
WebPageResponse(pathname, o) ==
    CASE pathname = DashboardPath -> DashboardPageResponse(o)
      [] pathname = LoginPath -> AuthPageResponse("LoginForm", o)
      [] pathname = <<"/", "auth", "/", "register">> ->
           AuthPageResponse("RegisterForm", o)
      [] pathname = <<"/", "auth", "/", "forgot-password">> ->
           AuthPageResponse("ForgotPasswordForm", o)
      [] OTHER -> PageRender("page")

\* what the deployment answers to a request: the middleware's redirect, or
\* what the page does after the middleware let the request through; the
\* pages of apps/web-app are client components and render
ServerResponse(app, req, o) ==
    IF app = "web"
    THEN LET gate == WebMiddlewareResponse(req, o)
         IN  IF gate.kind = "redirect" THEN gate
             ELSE WebPageResponse(req.pathname, o)
    ELSE LET gate == IF Matcher(req.pathname)
                     THEN MiddlewareResponse(req.pathname, o)
                     ELSE NextResponseNext({})
         IN  IF gate.kind = "redirect" THEN gate ELSE PageRender("page")

\* the request the browser sends for a Location header: an absolute URL of
\* the middleware, or the path a page handed to redirect()
RequestFor(location, cookies) ==
    LET url == ParseURL(location)
    IN  IF url.ok
        THEN [pathname |-> url.pathname, search |-> url.search,
              cookies |-> cookies]
        ELSE [pathname |-> location, search |-> <<>>, cookies |-> cookies]

(***************************************************************************)
(* The state machine: one action per handler, then the answer is consumed. *)
(***************************************************************************)
Init ==
    /\ pc = "idle"
    /\ op = "none"
    /\ request = NoRequest
    /\ reader = NoOutcome
    /\ response = NoResponse
    /\ arg = NoArg
    /\ ret = <<>>
    /\ world \in InitialWorlds
    /\ page = NoPage
    /\ auth = NoAuth
    /\ tasks = NoTasks
    /\ trail = <<>>

\* apps/web-app middleware(request)
Middleware ==
    /\ pc = "idle"
    /\ world.app = "web-app"
    /\ \E p \in Paths, o \in Outcomes :
         /\ SessionAllows(o)
         /\ request' = [pathname |-> p, search |-> <<>>, cookies |-> {}]
         /\ reader' = o
         /\ response' = MiddlewareResponse(p, o)
    /\ op' = "middleware"
    /\ pc' = "done"
    /\ UNCHANGED <<arg, ret, world, page, auth, tasks, trail>>

\* apps/web middleware(request)
WebMiddleware ==
    /\ pc = "idle"
    /\ world.app = "web"
    /\ \E p \in Paths, c \in SUBSET CookieNames, o \in Outcomes :
         /\ ~o.throws
         /\ SessionAllows(o)
         /\ request' = [pathname |-> p, search |-> <<>>, cookies |-> c]
         /\ reader' = o
         /\ response' = WebMiddlewareResponse(request', o)
    /\ op' = "webMiddleware"
    /\ pc' = "done"
    /\ UNCHANGED <<arg, ret, world, page, auth, tasks, trail>>

DashboardPage ==
    /\ pc = "idle"
    /\ world.app = "web"
    /\ \E o \in Outcomes :
         /\ SessionAllows(o)
         /\ reader' = o
         /\ response' = DashboardPageResponse(o)
    /\ request' = [NoRequest EXCEPT !.pathname = DashboardPath]
    /\ op' = "DashboardPage"
    /\ pc' = "done"
    /\ UNCHANGED <<arg, ret, world, page, auth, tasks, trail>>

AuthPage(name, path, form) ==
    /\ pc = "idle"
    /\ world.app = "web"
    /\ \E o \in Outcomes :
         /\ SessionAllows(o)
         /\ reader' = o
         /\ response' = AuthPageResponse(form, o)
    /\ request' = [NoRequest EXCEPT !.pathname = path]
    /\ op' = name
    /\ pc' = "done"
    /\ UNCHANGED <<arg, ret, world, page, auth, tasks, trail>>

LoginPage == AuthPage("LoginPage", LoginPath, "LoginForm")

RegisterPage ==
    AuthPage("RegisterPage", <<"/", "auth", "/", "register">>, "RegisterForm")

ForgotPasswordPage ==
    AuthPage("ForgotPasswordPage", <<"/", "auth", "/", "forgot-password">>,
             "ForgotPasswordForm")

CallGetRedirectDestination ==
    /\ pc = "idle"
    /\ world.app = "web-app"
    /\ \E a \in Args :
         /\ arg' = a
         /\ ret' = GetRedirectDestination(a.url)
    /\ op' = "getRedirectDestination"
    /\ pc' = "done"
    /\ UNCHANGED <<request, reader, response, world, page, auth, tasks, trail>>

\* the browser follows the middleware's redirect to the login page
FollowRedirectToLogin ==
    /\ pc = "done"
    /\ op = "middleware"
    /\ response.kind = "redirect"
    /\ ParseURL(response.location).pathname = LoginPath
    /\ page' = [NoPage EXCEPT !.location = response.location,
                              !.view = "LoginForm"]
    /\ pc' = "atLogin"
    /\ UNCHANGED <<op, request, reader, response, arg, ret, world, auth, tasks, trail>>

\* the user opens the login page of apps/web-app directly
OpenLogin ==
    /\ pc = "idle"
    /\ world.app = "web-app"
    /\ ~world.session
    /\ page' = [NoPage EXCEPT !.location = Href(LoginPath, <<>>),
                              !.view = "LoginForm"]
    /\ request' = [NoRequest EXCEPT !.pathname = LoginPath]
    /\ pc' = "atLogin"
    /\ UNCHANGED <<op, reader, response, arg, ret, world, auth, tasks, trail>>

\* apps/web-app: the login form is submitted
LoginFormSubmit ==
    /\ pc = "atLogin"
    /\ \E c \in Credentials :
         \E reply \in SignInWithPassword(world, c) :
           /\ arg' = [form |-> "LoginForm", valid |-> TRUE,
                      credentials |-> c, reply |-> reply,
                      sessionBefore |-> world.session]
           /\ ret' = [NoResult EXCEPT !.error = AuthProviderSignIn(reply).error,
                                      !.calls = <<"signInWithPassword">>]
           /\ page' = LoginFormOnSubmit(page, reply)
           /\ auth' = AuthAfterSignIn(auth, reply)
           /\ world' = WorldAfterSignIn(world, reply)
    /\ op' = "LoginForm.onSubmit"
    /\ pc' = "done"
    /\ UNCHANGED <<request, reader, response, tasks, trail>>

\* apps/web: the login form posts to loginAction
LoginActionCall ==
    /\ pc = "idle"
    /\ world.app = "web"
    /\ \E valid \in BOOLEAN, c \in Credentials :
         \E reply \in IF valid THEN SignInWithPassword(world, c) ELSE {NoReply} :
           /\ valid \/ c = "wrong"
           /\ arg' = [form |-> "LoginForm", valid |-> valid,
                      credentials |-> c, reply |-> reply,
                      sessionBefore |-> world.session]
           /\ ret' = LoginAction(valid, reply)
           /\ page' = WebFormOnSubmit([NoPage EXCEPT !.view = "LoginForm"], ret')
           /\ world' = WorldAfterSignIn(world, reply)
    /\ op' = "loginAction"
    /\ pc' = "done"
    /\ UNCHANGED <<request, reader, response, auth, tasks, trail>>

\* apps/web-app: AuthProvider mounts; getCurrentSession may also fail and
\* leave no session held
AuthProviderMount ==
    /\ pc = "idle"
    /\ world.app = "web-app"
    /\ \E held \in {world.session, FALSE} :
         /\ auth' = AuthAfterMount(held)
         /\ arg' = [form |-> "AuthProvider", held |-> held, replies |-> <<>>]
    /\ op' = "AuthProvider"
    /\ pc' = "mounted"
    /\ UNCHANGED <<request, reader, response, ret, world, page, tasks, trail>>

\* apps/web-app: signOut() is called, a first and a second time
AuthProviderSignOutCall ==
    /\ pc \in {"mounted", "signedOut"}
    /\ op \in {"AuthProvider", "AuthProvider.signOut"}
    /\ \E reply \in SignOutReplies :
         LET out == AuthProviderSignOut(auth, reply)
         IN  /\ auth' = out.auth
             /\ page' = [page EXCEPT !.pushed = out.pushed]
             /\ ret' = [NoResult EXCEPT !.calls = <<"signOut">>]
                           @@ [raised |-> out.raised]
             /\ arg' = [arg EXCEPT !.replies = Append(@, reply)]
             /\ world' = WorldAfterSignOut(world, reply)
    /\ op' = "AuthProvider.signOut"
    /\ pc' = IF pc = "mounted" THEN "signedOut" ELSE "done"
    /\ UNCHANGED <<request, reader, response, tasks, trail>>

\* apps/web: the sign-out button of the dashboard is pressed
SignOutActionCall ==
    /\ pc = "idle"
    /\ world.app = "web"
    /\ \E reply \in SignOutReplies :
         /\ arg' = [form |-> "SignOutButton", reply |-> reply]
         /\ ret' = SignOutAction(reply)
         /\ page' = HandleSignOut([NoPage EXCEPT !.view = "SignOutButton"], ret')
         /\ world' = WorldAfterSignOut(world, reply)
    /\ op' = "signOutAction"
    /\ pc' = "done"
    /\ UNCHANGED <<request, reader, response, auth, tasks, trail>>

\* apps/web: the registration form posts to registerAction
RegisterActionCall ==
    /\ pc = "idle"
    /\ world.app = "web"
    /\ \E valid \in BOOLEAN :
         \E reply \in IF valid THEN SignUpReplies(world) ELSE {NoReply} :
           /\ arg' = [form |-> "RegisterForm", valid |-> valid,
                      reply |-> reply, sessionBefore |-> world.session]
           /\ ret' = RegisterAction(valid, reply)
           /\ page' = WebFormOnSubmit([NoPage EXCEPT !.view = "RegisterForm"],
                                      ret')
           /\ world' = WorldAfterSignUp(world, reply)
    /\ op' = "registerAction"
    /\ pc' = "done"
    /\ UNCHANGED <<request, reader, response, auth, tasks, trail>>

\* apps/web: the forgot-password form posts to forgotPasswordAction
ForgotPasswordActionCall ==
    /\ pc = "idle"
    /\ world.app = "web"
    /\ \E valid \in BOOLEAN :
         \E reply \in IF valid THEN ResetPasswordForEmailReplies
                               ELSE {NoReply} :
           /\ arg' = [form |-> "ForgotPasswordForm", valid |-> valid,
                      reply |-> reply, sessionBefore |-> world.session]
           /\ ret' = ForgotPasswordAction(valid, reply)
           /\ page' = ForgotPasswordFormOnSubmit(
                          [NoPage EXCEPT !.view = "ForgotPasswordForm"], ret')
    /\ op' = "forgotPasswordAction"
    /\ pc' = "done"
    /\ UNCHANGED <<request, reader, response, world, auth, tasks, trail>>

\* apps/web: the new password is posted to resetPasswordAction
ResetPasswordActionCall ==
    /\ pc = "idle"
    /\ world.app = "web"
    /\ \E valid \in BOOLEAN :
         \E reply \in IF valid THEN UpdateUserReplies(world) ELSE {NoReply} :
           /\ arg' = [form |-> "ResetPasswordForm", valid |-> valid,
                      reply |-> reply, sessionBefore |-> world.session]
           /\ ret' = ResetPasswordAction(valid, reply)
    /\ op' = "resetPasswordAction"
    /\ pc' = "done"
    /\ UNCHANGED <<request, reader, response, world, page, auth, tasks, trail>>

\* apps/web-app: the reset-password form is submitted; its resolver has
\* checked that the two passwords match
ResetPasswordFormSubmit ==
    /\ pc = "idle"
    /\ world.app = "web-app"
    /\ \E reply \in UpdateUserReplies(world) :
         /\ arg' = [form |-> "ResetPasswordForm", valid |-> TRUE,
                    reply |-> reply, sessionBefore |-> world.session]
         /\ ret' = [NoResult EXCEPT
                      !.error = AuthProviderUpdatePassword(TRUE, reply).error,
                      !.calls = <<"updateUser">>]
         /\ page' = ResetPasswordFormOnSubmit(
                        [NoPage EXCEPT !.view = "ResetPasswordForm"],
                        TRUE, reply)
    /\ auth' = [auth EXCEPT !.loading = FALSE]
    /\ op' = "ResetPasswordForm.onSubmit"
    /\ pc' = "done"
    /\ UNCHANGED <<request, reader, response, world, tasks, trail>>

\* apps/web-app: the registration form is submitted; its resolver has
\* checked that the two passwords match
RegisterFormSubmit ==
    /\ pc = "idle"
    /\ world.app = "web-app"
    /\ \E reply \in SignUpReplies(world) :
         /\ arg' = [form |-> "RegisterForm", valid |-> TRUE,
                    reply |-> reply, sessionBefore |-> world.session]
         /\ ret' = [NoResult EXCEPT
                      !.error = AuthProviderSignUp(TRUE, reply).error,
                      !.calls = <<"signUp">>]
         /\ page' = RegisterFormOnSubmit(
                        [NoPage EXCEPT !.view = "RegisterForm"], TRUE, reply)
         /\ world' = WorldAfterSignUp(world, reply)
    /\ auth' = [auth EXCEPT !.loading = FALSE]
    /\ op' = "RegisterForm.onSubmit"
    /\ pc' = "done"
    /\ UNCHANGED <<request, reader, response, tasks, trail>>

\* apps/web: a confirmation link is followed
ConfirmGetCall ==
    /\ pc = "idle"
    /\ world.app = "web"
    /\ \E t \in TokenHashes, ty \in LinkTypes, n \in NextTargets :
         \E reply \in VerifyOtpReplies(world, ty.value) \cup {NoReply} :
           LET url == ConfirmUrl(t, ty, n)
               out == ConfirmGet(url, reply)
           IN  /\ (reply.kind = "none") <=> (out.calls = <<>>)
               /\ request' = [pathname |-> ParseURL(url).pathname,
                              search |-> ParseURL(url).search,
                              cookies |-> {}]
               /\ arg' = [form |-> "confirm", token_hash |-> t, type |-> ty,
                          next |-> n, url |-> url, reply |-> reply,
                          sessionBefore |-> world.session]
               /\ response' = out.response
               /\ ret' = [NoResult EXCEPT !.calls = out.calls,
                                          !.redirect = out.response.location]
               /\ world' = WorldAfterVerifyOtp(world, reply)
    /\ op' = "GET /auth/confirm"
    /\ pc' = "done"
    /\ UNCHANGED <<reader, page, auth, tasks, trail>>

\* apps/web-app: the browser arrives on /auth/callback
AuthCallback ==
    /\ pc = "idle"
    /\ world.app = "web-app"
    /\ \E link \in Links, type \in CallbackTypes :
         /\ link = "valid" => world.account # "none"
         /\ \E reply \in GetSessionReplies(WorldAfterLink(world, link)) :
              LET search == CallbackSearch(link, type)
                  out    == HandleAuthCallback(
                              [NoPage EXCEPT
                                 !.location = Href(CallbackPath, search),
                                 !.view = "AuthCallback",
                                 !.isLoading = TRUE],
                              search, reply)
              IN  /\ arg' = [form |-> "AuthCallback", link |-> link,
                             type |-> type, reply |-> reply,
                             sessionBefore |-> world.session]
                  /\ page' = out.page
                  /\ ret' = [NoResult EXCEPT !.error = out.error,
                                             !.success = out.success,
                                             !.calls = <<"getSession">>]
         /\ world' = WorldAfterLink(world, link)
    /\ request' = [NoRequest EXCEPT !.pathname = CallbackPath]
    /\ op' = "AuthCallback"
    /\ pc' = "callbackDone"
    /\ UNCHANGED <<reader, response, auth, tasks, trail>>

\* the navigation the callback page asked for reaches the server: the
\* middleware runs on the paths its matcher names
CallbackNavigation ==
    /\ pc = "callbackDone"
    /\ page.pushed # <<>>
    /\ \E o \in Outcomes :
         /\ SessionAllows(o)
         /\ reader' = IF Matcher(page.pushed) THEN o ELSE NoOutcome
         /\ response' = IF Matcher(page.pushed)
                        THEN MiddlewareResponse(page.pushed, o)
                        ELSE NextResponseNext({})
    /\ request' = [NoRequest EXCEPT !.pathname = page.pushed]
    /\ op' = "navigation"
    /\ pc' = "done"
    /\ UNCHANGED <<arg, ret, world, page, auth, tasks, trail>>

\* apps/web-app: AuthProvider mounts and its effect runs
UseEffect ==
    /\ pc = "idle"
    /\ world.app = "web-app"
    /\ auth' = NoAuth
    /\ tasks' = TasksAfterEffect
    /\ op' = "AuthProvider.useEffect"
    /\ pc' = "provider"
    /\ UNCHANGED <<request, reader, response, arg, ret, world, page, trail>>

\* getInitialSession: sessionManager.getCurrentSession() has answered; it
\* answers null when the client reports an error or throws
GetCurrentSessionResolves ==
    /\ pc = "provider"
    /\ tasks.load = "getCurrentSession"
    /\ \E currentSession \in {world.session, FALSE} :
         tasks' = [tasks EXCEPT !.load = "getCurrentUser",
                                !.currentSession = currentSession,
                                !.failed = (currentSession # world.session)]
    /\ op' = "AuthProvider.useEffect"
    /\ UNCHANGED <<pc, request, reader, response, arg, ret, world, page, auth, trail>>

\* getInitialSession: sessionManager.getCurrentUser() has answered, with the
\* user of the session the client holds by then, or null after a failure;
\* the three setters run
GetInitialSessionResolves ==
    /\ pc = "provider"
    /\ tasks.load = "getCurrentUser"
    /\ \E currentUser \in {world.session, FALSE} :
         /\ auth' = InitialSessionLoaded(auth, tasks.currentSession, currentUser)
         /\ tasks' = [tasks EXCEPT !.load = "done",
                                   !.failed = @ \/ (currentUser # world.session)]
    /\ op' = "getInitialSession"
    /\ UNCHANGED <<pc, request, reader, response, arg, ret, world, page, trail>>

\* the client reports a change that no operation of this provider caused: a
\* sign-out or a sign-in in another tab, a refreshed token
OnAuthStateChange ==
    /\ pc = "provider"
    /\ \E session \in BOOLEAN :
         /\ session => world.account = "verified"
         /\ world' = [world EXCEPT !.session = session]
         /\ auth' = Listener(auth, session)
    /\ op' = "onAuthStateChange"
    /\ UNCHANGED <<pc, request, reader, response, arg, ret, page, tasks, trail>>

\* a component calls one of the provider's operations: setLoading(true), then
\* the await
CallOperation ==
    /\ pc = "provider"
    /\ Len(tasks.ops) < MaxInFlight
    /\ \E name \in Operations :
         tasks' = [tasks EXCEPT !.ops = Append(@, name)]
    /\ auth' = [auth EXCEPT !.loading = TRUE]
    /\ op' = "AuthProvider.call"
    /\ UNCHANGED <<pc, request, reader, response, arg, ret, world, page, trail>>

\* the call an operation awaits answers and the operation runs to its end
OperationSettles ==
    /\ pc = "provider"
    /\ \E i \in DOMAIN tasks.ops :
         \E reply \in OperationReplies(world, tasks.ops[i]) :
           /\ auth' = AuthAfterOperation(auth, tasks.ops[i], reply)
           /\ world' = WorldAfterOperation(world, tasks.ops[i], reply)
           /\ tasks' = [tasks EXCEPT !.ops = RemoveAt(@, i)]
    /\ op' = "AuthProvider.settle"
    /\ UNCHANGED <<pc, request, reader, response, arg, ret, page, trail>>

\* the user opens a path: the deployment answers the first request
Navigate ==
    /\ pc = "idle"
    /\ \E p \in Paths, c \in SUBSET CookieNames, o \in Outcomes :
         /\ SessionAllows(o)
         /\ world.app = "web" => ~o.throws
         /\ world.app = "web-app" => c = {}
         /\ request' = [pathname |-> p, search |-> <<>>, cookies |-> c]
         /\ reader' = o
         /\ response' = ServerResponse(world.app, request', o)
         /\ trail' = <<p>>
    /\ op' = "navigate"
    /\ pc' = "navigating"
    /\ UNCHANGED <<arg, ret, world, page, auth, tasks>>

\* the browser follows the redirect it was answered with
FollowRedirect ==
    /\ pc = "navigating"
    /\ response.kind = "redirect"
    /\ Len(trail) <= MaxRedirects
    /\ request' = RequestFor(response.location, request.cookies)
    /\ response' = ServerResponse(world.app, request', reader)
    /\ trail' = Append(trail, request'.pathname)
    /\ UNCHANGED <<pc, op, reader, arg, ret, world, page, auth, tasks>>

\* apps/web-app: the same session is put to both expiry checks at once
CheckSessionExpired ==
    /\ pc = "idle"
    /\ world.app = "web-app"
    /\ \E session \in Sessions, now \in NowValues :
         /\ arg' = [form |-> "isSessionExpired", session |-> session,
                    now |-> now]
         /\ ret' = [middlewareUtils |->
                       MiddlewareUtilsIsSessionExpired(session, now),
                    isAuthenticated |-> IsAuthenticated(session, now)]
    /\ op' = "isSessionExpired"
    /\ pc' = "done"
    /\ UNCHANGED <<request, reader, response, world, page, auth, tasks, trail>>

\* apps/web: a client form is submitted and the server action's promise
\* rejects
ServerActionRejects ==
    /\ pc = "idle"
    /\ world.app = "web"
    /\ \E form \in WebClientForms :
         /\ arg' = [form |-> form, reply |-> Thrown(FetchFailed)]
         /\ page' = OnSubmitRejected([NoPage EXCEPT !.view = form])
    /\ ret' = NoResult
    /\ op' = "onSubmit rejected"
    /\ pc' = "done"
    /\ UNCHANGED <<request, reader, response, world, auth, tasks, trail>>

\* apps/web: a method of SupabaseAuthService or SupabaseSessionManager is
\* called and the provider answers
ServiceCall ==
    /\ pc = "idle"
    /\ world.app = "web"
    /\ \E method \in ServiceMethods, reply \in ProviderOutcomes :
         /\ arg' = [form |-> "service", method |-> method, reply |-> reply]
         /\ ret' = ServiceResult(method, reply)
    /\ op' = "service"
    /\ pc' = "done"
    /\ UNCHANGED <<request, reader, response, world, page, auth, tasks, trail>>

\* the answer has been sent; the next request starts from scratch
Finish ==
    /\ pc \in {"done", "signedOut", "callbackDone", "provider", "navigating"}
    /\ pc' = "idle"
    /\ op' = "none"
    /\ request' = NoRequest
    /\ reader' = NoOutcome
    /\ response' = NoResponse
    /\ arg' = NoArg
    /\ ret' = <<>>
    /\ page' = NoPage
    /\ auth' = NoAuth
    /\ tasks' = NoTasks
    /\ trail' = <<>>
    /\ UNCHANGED world

Next ==
    \/ Middleware
    \/ WebMiddleware
    \/ DashboardPage
    \/ LoginPage
    \/ RegisterPage
    \/ ForgotPasswordPage
    \/ CallGetRedirectDestination
    \/ FollowRedirectToLogin
    \/ OpenLogin
    \/ LoginFormSubmit
    \/ LoginActionCall
    \/ AuthProviderMount
    \/ AuthProviderSignOutCall
    \/ SignOutActionCall
    \/ RegisterActionCall
    \/ ForgotPasswordActionCall
    \/ ResetPasswordActionCall
    \/ ResetPasswordFormSubmit
    \/ RegisterFormSubmit
    \/ ConfirmGetCall
    \/ AuthCallback
    \/ CallbackNavigation
    \/ UseEffect
    \/ GetCurrentSessionResolves
    \/ GetInitialSessionResolves
    \/ OnAuthStateChange
    \/ CallOperation
    \/ OperationSettles
    \/ Navigate
    \/ FollowRedirect
    \/ CheckSessionExpired
    \/ ServerActionRejects
    \/ ServiceCall
    \/ Finish

Spec == Init /\ [][Next]_vars

(***************************************************************************)
(* The route classes in the words of the claims, spelled out symbol by     *)
(* symbol and not through the operators of the middleware.                 *)
(***************************************************************************)
ProtectedWords == {"dashboard", "profile", "settings", "workouts"}

StartsProtected(p) == Len(p) >= 2 /\ p[1] = "/" /\ p[2] \in ProtectedWords

StartsAuth(p) == Len(p) >= 3 /\ p[1] = "/" /\ p[2] = "auth" /\ p[3] = "/"

ExactlyPublic(p) ==
    \/ p = <<"/">>
    \/ Len(p) = 2 /\ p[1] = "/" /\ p[2] \in {"about", "contact", "privacy", "terms"}

Answered(name) == pc = "done" /\ op = name

\* the session check of this request failed: an error result or an exception
ReaderFailed == reader.error \/ reader.throws

LoginHrefPrefix ==
    <<"http", ":", "/", "/", "app", "/", "auth", "/", "login", "?", "redirectTo", "=">>

\* the response is a redirect to the login page of this origin
RedirectsToLogin ==
    /\ response.kind = "redirect"
    /\ ParseURL(response.location).ok
    /\ StartsWith(response.location, Origin)
    /\ ParseURL(response.location).pathname = <<"/", "auth", "/", "login">>

\* the redirectTo parameter of the redirect, as the login page reads it
ReturnTarget == SearchParamsGet(ParseURL(response.location).search, <<"redirectTo">>)

(***************************************************************************)
(* C1. web-app middleware: a request for a path starting with /dashboard,  *)
(* /profile, /settings or /workouts whose session check yields no user is  *)
(* answered with a redirect to /auth/login?redirectTo=<encoded pathname>,  *)
(* whose redirectTo parameter reads back as the requested pathname; it is  *)
(* never passed through.                                                   *)
(***************************************************************************)
C1_NoUserOnProtectedRedirectsWithReturnPath ==
    (Answered("middleware") /\ StartsProtected(request.pathname)
        /\ ~reader.throws /\ ~reader.user)
    => /\ response.kind = "redirect"
       /\ response.location = LoginHrefPrefix \o Encode(request.pathname)
       /\ RedirectsToLogin
       /\ ReturnTarget = [present |-> TRUE, value |-> request.pathname]
       /\ (request.pathname = <<"/", "dashboard">>
             => response.location = LoginHrefPrefix \o <<"%", "2F", "dashboard">>)

\* an unauthenticated request for /dashboard/%x was answered
C1_Witness ==
    /\ Answered("middleware")
    /\ request.pathname = <<"/", "dashboard", "/", "%">>
    /\ ~reader.throws /\ ~reader.user /\ ~reader.error
    /\ response.kind = "redirect"

(***************************************************************************)
(* C2. web-app middleware: on a protected path a failed session check (an  *)
(* error result or an exception) is answered with a redirect to the login  *)
(* page, never with a pass-through, and the middleware always answers with *)
(* a response (it does not throw).                                         *)
(***************************************************************************)
C2_ProtectedFailsClosed ==
    Answered("middleware")
    => /\ response.kind \in {"next", "redirect"}
       /\ (StartsProtected(request.pathname) /\ ReaderFailed) => RedirectsToLogin

\* getUser threw on /settings and the request was redirected
C2_Witness ==
    /\ Answered("middleware")
    /\ request.pathname = <<"/", "settings">>
    /\ reader.throws
    /\ response.kind = "redirect"

(***************************************************************************)
(* C3. web-app middleware: a request for a path starting with /auth/ whose *)
(* session check yields a user is redirected to /dashboard, never passed   *)
(* through.                                                                *)
(***************************************************************************)
C3_AuthenticatedOnAuthRouteRedirects ==
    (Answered("middleware") /\ StartsAuth(request.pathname) /\ reader.user)
    => /\ response.kind = "redirect"
       /\ response.location = <<"http", ":", "/", "/", "app", "/", "dashboard">>

\* a signed-in user asked for /auth/login
C3_Witness ==
    /\ Answered("middleware")
    /\ request.pathname = <<"/", "auth", "/", "login">>
    /\ reader.user
    /\ response.kind = "redirect"

(***************************************************************************)
(* C4. web-app middleware: a request for a path starting with /auth/ whose *)
(* session check fails (error result with no user, or an exception) is     *)
(* passed through, never redirected.                                       *)
(***************************************************************************)
C4_AuthRouteFailsOpen ==
    (Answered("middleware") /\ StartsAuth(request.pathname) /\ ReaderFailed)
    => response.kind = "next"

\* getUser answered with an error on /auth/login and the page was let through
C4_Witness ==
    /\ Answered("middleware")
    /\ request.pathname = <<"/", "auth", "/", "login">>
    /\ reader.error
    /\ response.kind = "next"

(***************************************************************************)
(* C5. web-app middleware: every redirect that denies a protected path     *)
(* carries the requested pathname as redirectTo, whatever the reason the   *)
(* subject is absent (no session, error result, exception).                *)
(***************************************************************************)
C5_EveryDenialCarriesReturnPath ==
    (Answered("middleware") /\ StartsProtected(request.pathname)
        /\ response.kind = "redirect")
    => ReturnTarget = [present |-> TRUE, value |-> request.pathname]

(***************************************************************************)
(* C6. web-app middleware: a request for /, /about, /contact, /privacy or  *)
(* /terms is passed through for every session state and every error state. *)
(***************************************************************************)
C6_PublicAlwaysAllowed ==
    (Answered("middleware") /\ ExactlyPublic(request.pathname))
    => response.kind = "next"

\* /about was let through although the session check threw
C6_Witness ==
    /\ Answered("middleware")
    /\ request.pathname = <<"/", "about">>
    /\ reader.throws
    /\ response.kind = "next"

(***************************************************************************)
(* C7. web-app middleware: at most one of isAuthRoute, isProtectedRoute    *)
(* and isPublicRoute holds of a pathname, and a pathname of none of the    *)
(* three is passed through.                                                *)
(***************************************************************************)
Classes(p) ==
    { c \in {"auth", "protected", "public"} :
        \/ c = "auth" /\ IsAuthRoute(p)
        \/ c = "protected" /\ IsProtectedRoute(p)
        \/ c = "public" /\ IsPublicRoute(p) }

C7_ClassificationIsPartition ==
    Answered("middleware")
    => /\ Cardinality(Classes(request.pathname)) <= 1
       /\ StartsAuth(request.pathname) <=> Classes(request.pathname) = {"auth"}
       /\ StartsProtected(request.pathname) <=> Classes(request.pathname) = {"protected"}
       /\ ExactlyPublic(request.pathname) <=> Classes(request.pathname) = {"public"}
       /\ Classes(request.pathname) = {} => response.kind = "next"

\* /x/login is of no class and was let through
C7_Witness ==
    /\ Answered("middleware")
    /\ request.pathname = <<"/", "x", "/", "login">>
    /\ Classes(request.pathname) = {}
    /\ response.kind = "next"

(***************************************************************************)
(* C8. both request gates: a redirect taken because the subject is present *)
(* (the redirect to /dashboard) is taken only when the session reader      *)
(* validated a user during that request.                                   *)
(***************************************************************************)
C8_SubjectPresentOnlyFromValidatedSession ==
    ((Answered("middleware") \/ Answered("webMiddleware"))
        /\ response.kind = "redirect"
        /\ ParseURL(response.location).pathname = <<"/", "dashboard">>)
    => reader.user

(***************************************************************************)
(* C9. apps/web pages: DashboardPage renders only when getCurrentUser      *)
(* returned a user and redirects to /auth/login when there is no user, an  *)
(* error result or an exception; the login, register and forgot-password   *)
(* pages render their form in those cases and redirect to /dashboard only  *)
(* when a user was returned.                                               *)
(***************************************************************************)
AuthPages ==
    [LoginPage |-> "LoginForm", RegisterPage |-> "RegisterForm",
     ForgotPasswordPage |-> "ForgotPasswordForm"]

C9_PagesKeepTheAsymmetry ==
    /\ Answered("DashboardPage") =>
         IF reader.user /\ ~reader.error /\ ~reader.throws
         THEN response.kind = "render" /\ response.body = "Dashboard"
         ELSE response.kind = "redirect"
              /\ response.location = <<"/", "auth", "/", "login">>
    /\ (pc = "done" /\ op \in DOMAIN AuthPages) =>
         IF reader.user /\ ~reader.error /\ ~reader.throws
         THEN response.kind = "redirect"
              /\ response.location = <<"/", "dashboard">>
         ELSE response.kind = "render" /\ response.body = AuthPages[op]

\* the provider call threw while DashboardPage was rendered
C9_Witness ==
    /\ Answered("DashboardPage")
    /\ reader.throws
    /\ response.kind = "redirect"

(***************************************************************************)
(* C10. getRedirectDestination returns the redirectTo value exactly when   *)
(* the URL parses and the value starts with one "/" and not with "//";     *)
(* for an absent, scheme-qualified or protocol-relative value and for an   *)
(* unparsable URL it returns /dashboard.                                   *)
(***************************************************************************)
SingleSlashPath(t) == Len(t) >= 1 /\ t[1] = "/" /\ ~(Len(t) >= 2 /\ t[2] = "/")

C10_RedirectDestinationIsSameOriginPath ==
    Answered("getRedirectDestination")
    => ret = IF arg.form \in {"set", "raw"} /\ SingleSlashPath(arg.target)
             THEN arg.target
             ELSE <<"/", "dashboard">>

\* //evil.example.com/dashboard was handed in and replaced by /dashboard
C10_Witness ==
    /\ Answered("getRedirectDestination")
    /\ arg.form = "set"
    /\ arg.target = <<"/", "/", "evil", "/", "dashboard">>
    /\ ret = <<"/", "dashboard">>

(***************************************************************************)
(* C11.  Return-path round trip: after an unauthenticated request for a    *)
(* protected path P was redirected to the login page with P as the return  *)
(* target, a successful sign-in lands the user on P, not on the default    *)
(* landing page.                                                           *)
(***************************************************************************)
SignedIn(name) == Answered(name) /\ ret.error = NoMessage /\ arg.reply.kind = "ok"

PageReturnTarget ==
    SearchParamsGet(ParseURL(page.location).search, <<"redirectTo">>)

C11_SignInLandsOnReturnPath ==
    (/\ SignedIn("LoginForm.onSubmit")
     /\ StartsProtected(request.pathname)
     /\ PageReturnTarget.present
     /\ PageReturnTarget.value = request.pathname)
        => page.pushed = request.pathname

(***************************************************************************)
(* C12.  In the web-app AuthProvider, signOut always succeeds from the     *)
(* caller's view and is idempotent: whether the provider's sign-out        *)
(* succeeds, reports an error or throws, once signOut() has resolved the   *)
(* held user and session are both null, navigation to "/" has been asked   *)
(* for, loading is false and nothing was raised to the caller; a second    *)
(* call ends in the same state.                                            *)
(***************************************************************************)
SignOutResolved ==
    pc \in {"signedOut", "done"} /\ op = "AuthProvider.signOut"

C12_SignOutAlwaysSucceedsAndIsIdempotent ==
    SignOutResolved =>
        /\ auth = [user |-> FALSE, session |-> FALSE, loading |-> FALSE]
        /\ page.pushed = HomePath
        /\ ~ret.raised

\* a user was held, the first call met a provider error, the second one an
\* exception
C12_Witness ==
    /\ SignOutResolved
    /\ arg.held
    /\ Len(arg.replies) = 2
    /\ arg.replies[1].kind = "error"
    /\ arg.replies[2].kind = "throws"
    /\ world.session

(***************************************************************************)
(* C13.  In apps/web a failure of the provider's sign-out call is never    *)
(* shown to the user: for every provider outcome (success, error result,   *)
(* thrown exception) the sign-out action ends with the user being sent to  *)
(* "/" and the SignOutButton displays no error.                            *)
(***************************************************************************)
C13_SignOutFailureNeverShown ==
    Answered("signOutAction") =>
        /\ ret.redirect = HomePath
        /\ page.toast.kind # "error"

(***************************************************************************)
(* C14.  A sign-in attempt that the provider rejects for wrong credentials *)
(* returns an error result of kind InvalidCredentials to the form,         *)
(* performs no redirect to /dashboard, and leaves no session established   *)
(* (the result carries no session).                                        *)
(***************************************************************************)
SignInAnswered == Answered("LoginForm.onSubmit") \/ Answered("loginAction")

\* the texts by which the forms are told of wrong credentials: the web-app
\* service's own text, and in apps/web the provider's
InvalidCredentialsErrors == {InvalidCredentialsText, InvalidLoginCredentials}

SignInResult ==
    IF world.app = "web-app"
    THEN WebAppSignIn(arg.reply).session
    ELSE WebSignIn(arg.reply).data

C14_WrongCredentialsAreRefused ==
    (/\ SignInAnswered
     /\ arg.valid
     /\ arg.reply.kind = "error"
     /\ arg.reply.message = InvalidLoginCredentials)
        => /\ ret.error \in InvalidCredentialsErrors
           /\ page.toast.kind = "error"
           /\ ret.redirect = <<>>
           /\ page.pushed = <<>>
           /\ ~SignInResult
           /\ ~auth.session
           /\ world.session = arg.sessionBefore

\* the wrong password for an existing, verified account, on the login page
\* the middleware sent the browser to
C14_Witness ==
    /\ Answered("LoginForm.onSubmit")
    /\ arg.credentials = "wrong"
    /\ world.account = "verified"
    /\ arg.reply.message = InvalidLoginCredentials
    /\ PageReturnTarget.present
    /\ ~world.session

(***************************************************************************)
(* C15.  Every auth action handler (loginAction, registerAction,           *)
(* forgotPasswordAction, resetPasswordAction) makes zero provider calls    *)
(* when its input fails shape validation, returning a validation error     *)
(* instead, and exactly one provider call when the input is valid.         *)
(***************************************************************************)
ActionHandlers ==
    {"loginAction", "registerAction", "forgotPasswordAction",
     "resetPasswordAction"}

ValidationErrors ==
    [loginAction |-> <<"Invalid form data">>,
     registerAction |-> <<"Invalid form data">>,
     forgotPasswordAction |-> <<"Invalid email address">>,
     resetPasswordAction |-> <<"Invalid password data">>]

ProviderMessages ==
    {InvalidLoginCredentials, EmailNotConfirmed, UserAlreadyRegistered,
     PasswordTooShort, InvalidEmailFormat, SignupDisabled, TokenExpired,
     RateLimited, AuthSessionMissing, FetchFailed}

\* the texts written in the applications' own code
UserFacingMessages ==
    { MapAuthError(m) : m \in ProviderMessages }
    \cup { ValidationErrors[h] : h \in ActionHandlers }
    \cup { <<"Authentication failed">>, <<"Registration failed">>,
           <<"Password update failed">>, <<"Sign out failed">>,
           <<"Failed to create session">>, <<"Failed to create user">>,
           <<"Failed to update password">>, <<"Unknown error occurred">>,
           <<"An unexpected error occurred during sign in">> }

HandlersWithErrors ==
    ActionHandlers \cup {"LoginForm.onSubmit", "signOutAction"}

Unclassified(message) == MapAuthError(message) = UnexpectedErrorText

C16_OnlyFixedMessagesReachTheForm ==
    (pc = "done" /\ op \in HandlersWithErrors /\ ret.error # NoMessage) =>
        /\ ret.error \in UserFacingMessages
        /\ ret.error \notin ProviderMessages
        /\ (arg.reply.kind \in {"error", "throws"}
              /\ Unclassified(arg.reply.message))
             => ret.error = UnexpectedErrorText

(***************************************************************************)
(* C17.  Completing a password reset with an expired or invalid token      *)
(* yields an error that names the expired or invalid token,                *)
(* distinguishable from the generic error (in web-app: the "Reset link     *)
(* expired" feedback rather than the generic failure), and never the       *)
(* success state.                                                          *)
(***************************************************************************)
ResetCompletionAnswered ==
    Answered("ResetPasswordForm.onSubmit") \/ Answered("resetPasswordAction")

C17_ExpiredTokenIsToldApart ==
    (/\ ResetCompletionAnswered
     /\ arg.valid
     /\ arg.reply.kind = "error"
     /\ arg.reply.message = TokenExpired)
        => /\ ret.error # NoMessage
           /\ ret.redirect = <<>>
           /\ page.view # "isResetComplete"
           /\ ret.error # UnexpectedErrorText
           /\ world.app = "web-app"
                => page.toast.title = <<"Reset link expired">>

(***************************************************************************)
(* C18.  A successful sign-up leaves the subject pending verification with *)
(* no session established: the user is sent to the check-your-email state, *)
(* and the gate treats them as anonymous (a protected path still redirects *)
(* to login) until they verify their email or sign in.                     *)
(***************************************************************************)
SignedUp ==
    /\ Answered("registerAction") \/ Answered("RegisterForm.onSubmit")
    /\ arg.valid
    /\ arg.reply.kind = "ok"

\* the account stays "pending" until a verification link is followed, and
\* the provider refuses a sign-in before that
C18_SignUpLeavesThePendingSubjectAnonymous ==
    /\ SignedUp =>
         /\ world.account = "pending"
         /\ ~world.session
         /\ ~auth.session
         /\ ret.error = NoMessage
         /\ world.app = "web" => ret.redirect = CheckEmailPath
         /\ world.app = "web-app" =>
              page.view = "isRegistered" /\ page.pushed = <<>>
    /\ world.account = "pending" =>
         /\ ~world.session
         /\ (Answered("middleware") /\ StartsProtected(request.pathname))
              => RedirectsToLogin
         /\ Answered("DashboardPage") => response = PageRedirect(LoginPath)
         /\ (SignInAnswered /\ arg.valid) =>
              ret.error # NoMessage /\ ret.redirect = <<>>
                                    /\ page.pushed = <<>>

\* after a sign-up the still unverified user asks for a protected page
C18_Witness ==
    /\ world.account = "pending"
    /\ Answered("middleware")
    /\ StartsProtected(request.pathname)
    /\ ~reader.throws /\ ~reader.error
    /\ RedirectsToLogin

(***************************************************************************)
(* C19.  The email-confirmation handler GET /auth/confirm redirects to     *)
(* /dashboard only after the provider verified the token for type "email"; *)
(* when token_hash or type is missing it redirects to /auth/login with an  *)
(* error without calling the provider, when verification fails it          *)
(* redirects to /auth/login with an error, and a verified "recovery" token *)
(* leads to /auth/reset-password.                                          *)
(***************************************************************************)
\* the path of a redirect(...) target: what precedes "?" or "#"
RedirectPathname(location) ==
    LET q == FirstIndex(location, {"?", "#"})
    IN  IF q = 0 THEN location ELSE SubSeq(location, 1, q - 1)

RedirectsToDashboard ==
    response.kind = "redirect"
        /\ RedirectPathname(response.location) = DashboardPath

Missing(v) == ~v.present \/ v.value = <<>>

\* what the claim says of every case but the first
ConfirmOtherCases ==
    /\ (Missing(arg.token_hash) \/ Missing(arg.type)) =>
         /\ response = PageRedirect(InvalidLinkHref)
         /\ ret.calls = <<>>
    /\ arg.reply.kind = "error" => response = PageRedirect(FailedVerifyHref)
    /\ (arg.reply.kind = "ok" /\ arg.type = Some(<<"recovery">>)) =>
         RedirectPathname(response.location) = ResetPasswordPath
    /\ Len(ret.calls) <= 1

C20_RecoveryLinkReachesTheResetForm ==
    (/\ Answered("navigation")
     /\ arg.link = "valid"
     /\ arg.type = Some(<<"recovery">>)
     /\ request.pathname = ResetPasswordPath
     /\ world.session
     /\ reader.user)
        => response.kind = "next"

(***************************************************************************)
(* C21. web-app middleware: when it answers with a redirect (a signed-in   *)
(* user on an auth page, or a denied protected path) and the session check *)
(* refreshed the session during the request, the refreshed session cookies *)
(* are set on the redirect response.                                       *)
(***************************************************************************)
C21_RedirectCarriesRefreshedCookies ==
    (Answered("middleware") /\ ~reader.throws
        /\ response.kind = "redirect" /\ reader.setAll # {})
    => reader.setAll \subseteq response.cookies

C23_LoadingWhileAnOperationIsInFlight ==
    (pc = "provider" /\ tasks.ops # <<>>) => auth.loading

(***************************************************************************)
(* C24. web-app AuthProvider: when the initial session load finishes, the  *)
(* session and user it leaves held are those of the provider's most recent *)
(* state; a load that resolves late does not overwrite what the auth state *)
(* change listener delivered in the meantime.                              *)
(***************************************************************************)
C24_InitialLoadLeavesTheLatestState ==
    (pc = "provider" /\ op = "getInitialSession" /\ ~tasks.failed)
    => /\ auth.session = world.session
       /\ auth.user = world.session

(***************************************************************************)
(* C25. No redirect loop: for every session state and every set of request *)
(* cookies, following the redirects of the gates and pages from any        *)
(* starting path reaches a rendered page after finitely many redirects.    *)
(* The session state and the cookies do not change along the way, so a     *)
(* path requested a second time is requested for ever.                     *)
(***************************************************************************)
C25_NoRedirectLoop ==
    pc = "navigating"
    => \A i, j \in DOMAIN trail : trail[i] = trail[j] => i = j

(***************************************************************************)
(* C26. GET /auth/confirm: every redirect target it emits is a same-origin *)
(* absolute path, for every value of token_hash, type and next and every   *)
(* answer of the provider; it never redirects to another origin.           *)
(***************************************************************************)
C26_ConfirmRedirectsStayOnTheOrigin ==
    (Answered("GET /auth/confirm") /\ response.kind = "redirect")
    => /\ SingleSlashPath(response.location)
       /\ ~ParseURL(response.location).ok

(***************************************************************************)
(* C27. web-app AuthCallbackComponent: once it has finished processing, it *)
(* shows the "Success!" / "Authentication completed successfully" state    *)
(* only if the callback succeeded, that is a success message was set; when *)
(* no session is found or an error occurred it does not show it.           *)
(***************************************************************************)
C27_SuccessShownOnlyAfterSuccess ==
    (pc = "callbackDone" /\ op = "AuthCallback" /\ ~page.isLoading)
    => LET shown == CallbackRender(page.isLoading, ret.error, ret.success)
       IN  (shown.title = "Success!"
              \/ shown.description = "Authentication completed successfully")
           => ret.success # NoMessage

(***************************************************************************)
(* C28. web-app: middlewareUtils.isSessionExpired and the session          *)
(* manager's isSessionExpired agree for every session and every time, both *)
(* being true exactly when now >= expires_at * 1000 minus five minutes, a  *)
(* session without expires_at included; so isAuthenticated() calls a       *)
(* session usable exactly when the middleware helper calls it not expired. *)
(***************************************************************************)
C28_ExpiryChecksAgree ==
    (Answered("isSessionExpired") /\ ~arg.session.null)
    => /\ ret.isAuthenticated = ~ret.middlewareUtils
       /\ arg.session.expires_at.present
            => ret.middlewareUtils
                 = (arg.now >= arg.session.expires_at.value * 1000 - 300000)

(***************************************************************************)
(* C29. apps/web client forms (LoginForm, RegisterForm, ForgotPasswordForm,*)
(* SignOutButton): every submission ends with the control enabled again    *)
(* (isLoading false) or with a navigation away from the page, whether the  *)
(* server action succeeds, returns an error or rejects.  Stated on the     *)
(* state in which the submit handler has ended.                            *)
(***************************************************************************)
C29_SubmissionEndsEnabledOrNavigated ==
    (pc = "done" /\ world.app = "web" /\ page.view # "none"
        /\ arg.form \in WebClientForms)
    => ~page.isLoading \/ page.pushed # <<>>

(***************************************************************************)
(* C30. apps/web SupabaseAuthService and SupabaseSessionManager: every     *)
(* method returns a result for every answer of the provider (success,      *)
(* error result, exception).  A method that returns an AuthResult sets     *)
(* error exactly when the provider reported an error, threw, or returned   *)
(* no user / no session where the method expects one, and never sets both  *)
(* data and error; getCurrentUser and getSession return null in every      *)
(* failure case.                                                           *)
(***************************************************************************)
UserMethods == {"signUp", "updatePassword"}

SessionMethods == {"signIn", "verifyEmailToken", "refreshSession"}

AuthResultMethods ==
    UserMethods \cup SessionMethods \cup {"signOut", "requestPasswordReset"}

ProviderFailed ==
    \/ arg.reply.kind \in {"error", "throws"}
    \/ arg.method \in UserMethods \cup {"getCurrentUser"} /\ ~arg.reply.user
    \/ arg.method \in SessionMethods \cup {"getSession"} /\ ~arg.reply.session

C30_ServicesAlwaysAnswerWithDataOrError ==
    Answered("service")
    => /\ DOMAIN ret = {"data", "error"}
       /\ arg.method \in AuthResultMethods
            => /\ (ret.error # NoMessage) <=> ProviderFailed
               /\ ~(ret.data /\ ret.error # NoMessage)
       /\ arg.method \in {"getCurrentUser", "getSession"}
            => (ProviderFailed => ~ret.data)

\* signIn was answered with a user and no session: an error and no data
C30_Witness ==
    /\ Answered("service")
    /\ arg.method = "signIn"
    /\ arg.reply = Ok(FALSE)
    /\ ret = [data |-> FALSE, error |-> <<"Failed to create session">>]

====
